---- MODULE Spec2Model ----
(***************************************************************************)
(* Verification model of the cinema-chat session orchestration layer.      *)
(*                                                                         *)
(*   Part I   server.py            session registry, process supervisor,   *)
(*                                 participant status log                  *)
(*   Part II  video_playback_service_vlc.py   playback controller          *)
(*   Part III mcp_client.py        correlated tool RPC client              *)
(*   Part IV  cinema_bot.py        conversation pipeline / text filter     *)
(*                                                                         *)
(* Each part has its own next-state relation and specification; the        *)
(* variables of the other parts stay at their initial values.              *)
(***************************************************************************)
EXTENDS Integers, Sequences, FiniteSets, TLC

(***************************************************************************)
(* Bounds of the model                                                     *)
(***************************************************************************)
MaxBots == 2            \* bot processes spawned over a run
MaxAppends == 2         \* status updates posted over a run
MaxRemote == 2          \* remote processes that register over a run
MaxPlays == 2           \* /play requests over a run
MaxStops == 1           \* /stop requests over a run
MaxCalls == 3           \* tool calls made by the handlers over a run
MaxRpcStops == 2        \* stop() calls on the RPC client over a run
MaxTurns == 2           \* user turns over a run
MaxOutputs == 3         \* outputs of the language model over a run
MaxCleanups == 2        \* cleanup_room calls followed step by step over a run
MaxFrames == 2          \* text frames of one streamed response

(***************************************************************************)
(* Program constants                                                       *)
(***************************************************************************)
MAX_BOTS_PER_ROOM == 1

Rooms == {"r1", "r2"}               \* room urls handed out by create_room_and_token
BotPids == 1 .. MaxBots             \* pids of spawned bot processes
Identifiers == 1 .. MaxBots         \* uuid4 identifiers, one per creation request
RemotePids == 1 .. MaxRemote        \* pids of the processes on the Pi
NoPid == 0                          \* Python None in a pid field

VARIABLES
    \* ---- Part I: server.py ----
    bot_procs,          \* dict pid -> room_url of the tracked Popen handle
    procAlive,          \* pid -> TRUE while proc.poll() is None
    active_rooms,       \* dict room_url -> room_info
    participant_status, \* dict identifier -> [status, status_messages]
    nextPid,            \* next pid the OS hands out
    nextIdent,          \* next uuid4
    nAppends,           \* status updates posted so far
    appended,           \* identifier -> the entries appended to its log since it was created
    lastGet,            \* the last answer of get_conversation_status
    pollSeen,           \* identifier -> entries a polling front-end has received
    pollLast,           \* identifier -> total_message_count of its last poll
    lastCleanup,        \* the last cleanup_room call: outcomes, report, raised
    tornDown,           \* identifiers whose session cleanup_room has removed
    nextRemote,         \* pid of the next remote process that registers
    registered,         \* history: room -> the remote pids registered for its session
    \* ---- Part I, cleanup_room followed through its blocking waits ----
    cuPc,               \* "idle" | "wait_bot" | "wait_pi" | "wait_video"
    cuRoom,             \* the room_url of the call in progress
    cuOut,              \* what the handles of the call in progress have done so far
    cuResult,           \* the result dict of the call in progress
    sshHangs,           \* the ssh command the call waits for never completes
    nCleanups,          \* cleanup_room calls followed so far
    \* ---- Part II: video_playback_service_vlc.py ----
    current_process,    \* the tracked Popen handle (a vlc pid), 0 for None
    is_playing_static,  \* the module's flag
    vlcKind,            \* vlc pid -> "none" | "static" | "content"
    vlcAlive,           \* vlc pid -> TRUE while the process runs
    vlcOrigin,          \* static pid -> the clip whose monitor asked for it (0: none)
    superseded,         \* content pids killed by the pkill of a later play
    nextVlc,            \* next vlc pid
    started,            \* the service has run its start-up static call
    playPc,             \* play request -> where its play_video call stands
    monPc,              \* play request -> where its monitor thread stands
    monProc,            \* monitor's proc_to_monitor
    monWasStatic,       \* monitor's was_static
    statPc,             \* play request -> the static thread its monitor started
    stopPc,             \* stop request -> where its stop_playback call stands
    \* ---- Part II, the mpv service: video_playback_service_mpv.py ----
    mpv_current_process,  \* the tracked Popen handle (an mpv pid), 0 for None
    mpvKind,            \* mpv pid -> "none" | "static" | "content"
    mpvAlive,           \* mpv pid -> TRUE while the process runs
    nextMpv,            \* next mpv pid
    mpvPlayPc,          \* play request -> where its play_video call stands
    mpvMonPc,           \* play request -> where its monitor thread stands
    mpvMonProc,         \* play request -> the process its monitor waits on
    mpvStops,           \* /stop requests so far
    \* ---- Part III: mcp_client.py ----
    mcp_client,         \* "none": _mcp_client is None; "created": process is None;
                        \* "spawned": the worker process runs
    request_id,         \* MCPClient.request_id
    lockHeld,           \* MCPClient._lock is held
    toWorker,           \* requests written to the worker's stdin, not yet handled
    fromWorker,         \* responses on the worker's stdout, not yet read
    callPc,             \* caller -> where its handler stands
    callReqId,          \* caller -> the id of the request its call_tool wrote
    callResult,         \* caller -> what its call returned, and from which response
    sent,               \* history: every request written to the worker's stdin
    workerAlive,        \* the worker process runs
    nStops,             \* stop() calls so far
    lastStop,           \* history: the last stop() call
    \* ---- Part III, the bot process that owns the client ----
    botRunning,         \* the bot process of the session runs
    botEnd,             \* how it ended: "none" | "terminated" | "participant_left"
    \* ---- Part IV: cinema_bot.py, cinema_script.py ----
    turn,               \* user turns so far
    nOutputs,           \* outputs of the language model so far
    turnCalls,          \* history: the tool calls of the current user turn
    context,            \* messages of the language model's context
    output,             \* frames that reached transport.output()
    status_updates,     \* status_updater.update_status calls
    playback_commands,  \* video-playback-command frames pushed
    tool_results,       \* history: the FlowResult each handler call returned
    function_was_called,      \* VideoResponseProcessor.function_was_called
    pending_function_result   \* VideoResponseProcessor.pending_function_result

serverVars == <<bot_procs, procAlive, active_rooms, participant_status, nextPid,
                nextIdent, nAppends, appended, lastGet, pollSeen, pollLast,
                lastCleanup, tornDown, nextRemote, registered>>

playbackVars == <<current_process, is_playing_static, vlcKind, vlcAlive, vlcOrigin,
                  superseded, nextVlc, started, playPc, monPc, monProc,
                  monWasStatic, statPc, stopPc>>

mpvVars == <<mpv_current_process, mpvKind, mpvAlive, nextMpv, mpvPlayPc, mpvMonPc,
             mpvMonProc, mpvStops>>

rpcVars == <<mcp_client, request_id, lockHeld, toWorker, fromWorker, callPc,
             callReqId, callResult, sent, workerAlive, nStops, lastStop>>

sessionVars == <<botRunning, botEnd>>

dialogueVars == <<turn, nOutputs, turnCalls, context, output, status_updates,
                  playback_commands, tool_results, function_was_called,
                  pending_function_result>>

teardownVars == <<cuPc, cuRoom, cuOut, cuResult, sshHangs, nCleanups>>

vars == <<serverVars, teardownVars, playbackVars, mpvVars, rpcVars, sessionVars,
          dialogueVars>>

(***************************************************************************)
(* Steps of one part leave the variables of the other parts alone          *)
(***************************************************************************)
ServerOnly ==
    UNCHANGED <<teardownVars, playbackVars, mpvVars, rpcVars, sessionVars, dialogueVars>>
TeardownOnly ==
    UNCHANGED <<playbackVars, mpvVars, rpcVars, sessionVars, dialogueVars>>
PlaybackOnly ==
    UNCHANGED <<serverVars, teardownVars, mpvVars, rpcVars, sessionVars, dialogueVars>>
MpvOnly ==
    UNCHANGED <<serverVars, teardownVars, playbackVars, rpcVars, sessionVars, dialogueVars>>
RpcOnly ==
    UNCHANGED <<serverVars, teardownVars, playbackVars, mpvVars, sessionVars, dialogueVars>>
SessionOnly ==
    UNCHANGED <<serverVars, teardownVars, playbackVars, mpvVars, dialogueVars>>
DialogueOnly ==
    UNCHANGED <<serverVars, teardownVars, playbackVars, mpvVars, rpcVars, sessionVars>>

(***************************************************************************)
(* Dict helpers                                                            *)
(***************************************************************************)
DictSet(d, k, v) == [x \in DOMAIN d \cup {k} |-> IF x = k THEN v ELSE d[x]]
DictDel(d, k) == [x \in DOMAIN d \ {k} |-> d[x]]
EmptyDict == [x \in {} |-> 0]

(***************************************************************************)
(* Part I.  server.py                                                      *)
(***************************************************************************)

NoReport == [called |-> FALSE]

ServerInit ==
    /\ bot_procs = EmptyDict
    /\ procAlive = [p \in BotPids |-> FALSE]
    /\ active_rooms = EmptyDict
    /\ participant_status = EmptyDict
    /\ nextPid = 1
    /\ nextIdent = 1
    /\ nAppends = 0
    /\ appended = [i \in Identifiers |-> <<>>]
    /\ lastGet = [called |-> FALSE]
    /\ pollSeen = [i \in Identifiers |-> <<>>]
    /\ pollLast = [i \in Identifiers |-> 0]
    /\ lastCleanup = NoReport
    /\ tornDown = {}
    /\ nextRemote = 1
    /\ registered = [room_url \in Rooms |-> {}]

\* The bots of a room that are tracked and whose process has not exited.
LiveBots(room_url) ==
    {pid \in DOMAIN bot_procs : bot_procs[pid] = room_url /\ procAlive[pid]}

num_bots_in_room(room_url) == Cardinality(LiveBots(room_url))

\* subprocess.Popen succeeded: the handle is tracked under its pid.
TrackBot(room_url) ==
    /\ bot_procs' = DictSet(bot_procs, nextPid, room_url)
    /\ procAlive' = [procAlive EXCEPT ![nextPid] = TRUE]
    /\ nextPid' = nextPid + 1

\* GET / : start_agent
start_agent(room_url, popenOk) ==
    /\ nextPid <= MaxBots
    /\ nextIdent <= MaxBots
    /\ IF num_bots_in_room(room_url) >= MAX_BOTS_PER_ROOM
       THEN UNCHANGED <<bot_procs, procAlive, nextPid, nextIdent>>   \* HTTP 500
       ELSE /\ nextIdent' = nextIdent + 1
            /\ IF popenOk
               THEN TrackBot(room_url)
               ELSE UNCHANGED <<bot_procs, procAlive, nextPid>>      \* HTTP 500
    /\ UNCHANGED <<active_rooms, participant_status, nAppends, appended, lastGet,
                   pollSeen, pollLast, lastCleanup, tornDown, nextRemote, registered>>

\* A connect handler that records the session before it spawns the bot.
RtviConnectRecordsBeforeSpawn(room_url, popenOk) ==
    /\ nextPid <= MaxBots
    /\ nextIdent <= MaxBots
    /\ nextIdent' = nextIdent + 1
    /\ active_rooms' = DictSet(active_rooms, room_url,
           [identifier |-> nextIdent,
            bot_pid |-> nextPid,
            pi_client_pid |-> NoPid,
            video_service_pid |-> NoPid,
            status |-> "bot_started"])
    /\ IF popenOk
       THEN TrackBot(room_url)
       ELSE UNCHANGED <<bot_procs, procAlive, nextPid>>
    /\ UNCHANGED <<participant_status, nAppends, appended, lastGet, pollSeen,
                   pollLast, lastCleanup, tornDown, nextRemote, registered>>

\* POST /connect : rtvi_connect
rtvi_connect(room_url, popenOk) ==
    /\ nextPid <= MaxBots
    /\ nextIdent <= MaxBots
    /\ nextIdent' = nextIdent + 1
    /\ IF popenOk
       THEN /\ TrackBot(room_url)
            /\ active_rooms' = DictSet(active_rooms, room_url,
                   [identifier |-> nextIdent,
                    bot_pid |-> nextPid,
                    pi_client_pid |-> NoPid,
                    video_service_pid |-> NoPid,
                    status |-> "bot_started"])
       ELSE UNCHANGED <<bot_procs, procAlive, nextPid, active_rooms>> \* HTTP 500
    /\ UNCHANGED <<participant_status, nAppends, appended, lastGet,
                   pollSeen, pollLast, lastCleanup, tornDown, nextRemote, registered>>

\* A bot process exits on its own (participant left, crash).
BotExit(pid) ==
    /\ pid < nextPid
    /\ procAlive[pid]
    /\ procAlive' = [procAlive EXCEPT ![pid] = FALSE]
    /\ UNCHANGED <<bot_procs, active_rooms, participant_status, nextPid, nextIdent,
                   nAppends, appended, lastGet, pollSeen, pollLast, lastCleanup,
                   tornDown, nextRemote, registered>>

(***************************************************************************)
(* Status log: /update-status and /conversation-status                     *)
(***************************************************************************)

\* Python's all_messages[last_seen:] (a negative index counts from the end).
PySliceFrom(s, k) ==
    LET start == IF k < 0
                 THEN (IF Len(s) + k < 0 THEN 0 ELSE Len(s) + k)
                 ELSE (IF k > Len(s) THEN Len(s) ELSE k)
    IN SubSeq(s, start + 1, Len(s))

NewStatusEntry == [status |-> "initializing", status_messages |-> <<>>]

\* POST /update-status.  status_text 0 stands for a missing or empty "status".
update_conversation_status(identifier, status_text) ==
    /\ nAppends < MaxAppends
    /\ nAppends' = nAppends + 1
    /\ LET entry == IF identifier \in DOMAIN participant_status
                    THEN participant_status[identifier]
                    ELSE NewStatusEntry
           msgs == IF status_text # 0
                   THEN Append(entry.status_messages, status_text)
                   ELSE entry.status_messages
       IN /\ participant_status' = DictSet(participant_status, identifier,
                 [status |-> IF status_text # 0 THEN "set" ELSE entry.status,
                  status_messages |-> msgs])
          /\ appended' = IF status_text # 0
                         THEN [appended EXCEPT ![identifier] = Append(@, status_text)]
                         ELSE appended
    /\ UNCHANGED <<bot_procs, procAlive, active_rooms, nextPid, nextIdent, lastGet,
                   pollSeen, pollLast, lastCleanup, tornDown, nextRemote, registered>>

\* The body of get_conversation_status: the answer and the stored dict after it.
\* status_data is a shallow copy, so status_data["context"] is the stored
\* context dict and the assignment of new_messages writes into the stored log.
GetAnswer(identifier, last_seen) ==
    IF identifier \in DOMAIN participant_status
    THEN LET all_messages == participant_status[identifier].status_messages
             new_messages == PySliceFrom(all_messages, last_seen)
         IN [found |-> TRUE,
             status_messages |-> new_messages,
             total_message_count |-> Len(all_messages),
             stored |-> [participant_status EXCEPT
                            ![identifier].status_messages = new_messages]]
    ELSE [found |-> FALSE,
          status_messages |-> <<>>,
          total_message_count |-> 0,
          stored |-> participant_status]

GetRecord(identifier, last_seen, ans) ==
    [called |-> TRUE, identifier |-> identifier, last_seen |-> last_seen,
     found |-> ans.found,
     status_messages |-> ans.status_messages,
     total_message_count |-> ans.total_message_count,
     log |-> appended[identifier]]

\* GET /conversation-status/{identifier}?last_seen=n
get_conversation_status(identifier, last_seen) ==
    LET ans == GetAnswer(identifier, last_seen)
    IN /\ participant_status' = ans.stored
       /\ lastGet' = GetRecord(identifier, last_seen, ans)
       /\ UNCHANGED <<bot_procs, procAlive, active_rooms, nextPid, nextIdent,
                      nAppends, appended, pollSeen, pollLast, lastCleanup,
                      tornDown, nextRemote, registered>>

\* A front-end polling with last_seen = the total_message_count of its last poll.
FrontendPoll(identifier) ==
    LET ans == GetAnswer(identifier, pollLast[identifier])
    IN /\ participant_status' = ans.stored
       /\ lastGet' = GetRecord(identifier, pollLast[identifier], ans)
       /\ IF ans.found
          THEN /\ pollSeen' = [pollSeen EXCEPT ![identifier] = @ \o ans.status_messages]
               /\ pollLast' = [pollLast EXCEPT ![identifier] = ans.total_message_count]
          ELSE UNCHANGED <<pollSeen, pollLast>>
       /\ UNCHANGED <<bot_procs, procAlive, active_rooms, nextPid, nextIdent,
                      nAppends, appended, lastCleanup, tornDown, nextRemote,
                      registered>>

(***************************************************************************)
(* cleanup_room and the endpoints that call it                             *)
(***************************************************************************)

\* What terminating the local bot handle can do:
\*   exits             proc.terminate(), the process is gone within wait(5)
\*   kill_ok           wait(5) expires, proc.kill() is delivered
\*   kill_raises       wait(5) expires, proc.kill() raises (os.kill fails)
\*   terminate_raises  proc.terminate() raises
BotOutcomes == {"exits", "kill_ok", "kill_raises", "terminate_raises"}

\* What subprocess.run(['ssh', host, 'kill <pid>'], check=False, timeout=5) can do:
\*   rc_zero     the remote kill ran
\*   rc_nonzero  ssh returned non-zero (host unreachable, no such process)
\*   timeout     TimeoutExpired (or another exception of subprocess.run)
RemoteOutcomes == {"rc_zero", "rc_nonzero", "timeout"}

Outcomes == [bot : BotOutcomes, pi : RemoteOutcomes, video : RemoteOutcomes]

ServerState ==
    [bp |-> bot_procs, pa |-> procAlive, ar |-> active_rooms,
     ps |-> participant_status, ap |-> appended, td |-> tornDown]

EmptyResult ==
    [bot_terminated |-> FALSE, pi_client_terminated |-> FALSE,
     video_service_terminated |-> FALSE, errors |-> <<>>, ssh_kills |-> {}]

\* Lines 99-118: the bot handle.  A process that has already exited makes
\* terminate() a no-op and wait() return at once.
CleanupBot(st, room_info, o) ==
    LET bot_pid == room_info.bot_pid
        tracked == bot_pid # NoPid /\ bot_pid \in DOMAIN st.bp
        out == IF tracked /\ st.pa[bot_pid] THEN o.bot ELSE "exits"
    IN IF ~tracked
       THEN [st |-> st, result |-> EmptyResult, raised |-> FALSE]
       ELSE IF out = "kill_raises"
       THEN [st |-> st, result |-> EmptyResult, raised |-> TRUE]
       ELSE [st |-> [st EXCEPT
                       !.pa = IF out \in {"exits", "kill_ok"}
                              THEN [st.pa EXCEPT ![bot_pid] = FALSE] ELSE st.pa,
                       !.bp = DictDel(st.bp, bot_pid)],
             result |-> [EmptyResult EXCEPT
                       !.bot_terminated = (out \in {"exits", "kill_ok"}),
                       !.errors = IF out = "terminate_raises" THEN <<"bot">> ELSE <<>>],
             raised |-> FALSE]

\* Lines 120-149: the two remote handles, killed over ssh.
CleanupRemote(r, room_info, o) ==
    LET pi == room_info.pi_client_pid
        vs == room_info.video_service_pid
        e1 == IF pi # NoPid /\ o.pi = "timeout" THEN <<"pi_client">> ELSE <<>>
        e2 == IF vs # NoPid /\ o.video = "timeout" THEN <<"video_service">> ELSE <<>>
    IN [r EXCEPT
          !.result.ssh_kills = (IF pi # NoPid THEN {pi} ELSE {})
                                  \cup (IF vs # NoPid THEN {vs} ELSE {}),
          !.result.pi_client_terminated = (pi # NoPid /\ o.pi # "timeout"),
          !.result.video_service_terminated = (vs # NoPid /\ o.video # "timeout"),
          !.result.errors = @ \o e1 \o e2]

\* Lines 151-160: status tracking and the registry entry.
CleanupTracking(r, room_url, room_info) ==
    [r EXCEPT
        !.st.ps = DictDel(@, room_info.identifier),
        !.st.ar = DictDel(@, room_url),
        !.st.ap = [@ EXCEPT ![room_info.identifier] = <<>>],
        !.st.td = @ \cup {room_info.identifier}]

cleanup_room(st, room_url, o) ==
    IF room_url \notin DOMAIN st.ar
    THEN [st |-> st,
          result |-> [EmptyResult EXCEPT !.errors = <<"not_found">>],
          raised |-> FALSE]
    ELSE LET room_info == st.ar[room_url]
             r1 == CleanupBot(st, room_info, o)
         IN IF r1.raised
            THEN r1
            ELSE CleanupTracking(CleanupRemote(r1, room_info, o), room_url, room_info)

SetServerState(st) ==
    /\ bot_procs' = st.bp
    /\ procAlive' = st.pa
    /\ active_rooms' = st.ar
    /\ participant_status' = st.ps
    /\ appended' = st.ap
    /\ tornDown' = st.td

NoRoomInfo ==
    [identifier |-> 0, bot_pid |-> NoPid, pi_client_pid |-> NoPid,
     video_service_pid |-> NoPid, status |-> "none"]

\* The registrations of the sessions that are left.
RegisteredLeft(st) ==
    [room_url \in Rooms |-> IF room_url \in DOMAIN st.ar THEN registered[room_url] ELSE {}]

\* What a cleanup_room call was given, what it met and what it left behind.
CleanupRecord(room_url, o, r) ==
    LET known == room_url \in DOMAIN active_rooms
        room_info == IF known THEN active_rooms[room_url] ELSE NoRoomInfo
    IN [called |-> TRUE, room_url |-> room_url, known |-> known,
        room_info |-> room_info, outcome |-> o,
        result |-> r.result, raised |-> r.raised,
        room_left |-> room_url \in DOMAIN r.st.ar,
        log_left |-> room_info.identifier \in DOMAIN r.st.ps]

\* POST /cleanup-room
cleanup_room_endpoint(room_url, o) ==
    LET r == cleanup_room(ServerState, room_url, o)
    IN /\ SetServerState(r.st)
       /\ lastCleanup' = CleanupRecord(room_url, o, r)
       /\ registered' = RegisteredLeft(r.st)
       /\ UNCHANGED <<nextPid, nextIdent, nAppends, lastGet, pollSeen, pollLast,
                      nextRemote>>

\* A sweep that marks every room.
RoomsToRemoveAll == DOMAIN active_rooms

\* The rooms list_active_rooms marks for removal: their bot has exited.
rooms_to_remove ==
    {room_url \in DOMAIN active_rooms :
        LET bot_pid == active_rooms[room_url].bot_pid
        IN bot_pid # NoPid /\ bot_pid \in DOMAIN bot_procs /\ ~procAlive[bot_pid]}

RECURSIVE CleanupAll(_, _, _)
CleanupAll(st, rooms, outs) ==
    IF rooms = {}
    THEN st
    ELSE LET room_url == CHOOSE x \in rooms : TRUE
         IN CleanupAll(cleanup_room(st, room_url, outs[room_url]).st,
                       rooms \ {room_url}, outs)

\* GET /rooms : the sweep of dead rooms
list_active_rooms(outs) ==
    /\ rooms_to_remove # {}
    /\ SetServerState(CleanupAll(ServerState, rooms_to_remove, outs))
    /\ registered' = RegisteredLeft(CleanupAll(ServerState, rooms_to_remove, outs))
    /\ UNCHANGED <<nextPid, nextIdent, nAppends, lastGet, pollSeen, pollLast,
                   lastCleanup, nextRemote>>

\* POST /register-pi-client
register_pi_client(room_url, pi_client_pid) ==
    /\ room_url \in DOMAIN active_rooms
    /\ active_rooms' = [active_rooms EXCEPT
                           ![room_url].pi_client_pid = pi_client_pid,
                           ![room_url].status = "pi_client_connected"]
    /\ registered' = [registered EXCEPT ![room_url] = @ \cup {pi_client_pid}]
    /\ UNCHANGED <<bot_procs, procAlive, participant_status, nextPid, nextIdent,
                   nAppends, appended, lastGet, pollSeen, pollLast, lastCleanup,
                   tornDown>>

\* POST /register-video-service
register_video_service(room_url, video_service_pid) ==
    /\ room_url \in DOMAIN active_rooms
    /\ active_rooms' = [active_rooms EXCEPT
                           ![room_url].video_service_pid = video_service_pid]
    /\ registered' = [registered EXCEPT ![room_url] = @ \cup {video_service_pid}]
    /\ UNCHANGED <<bot_procs, procAlive, participant_status, nextPid, nextIdent,
                   nAppends, appended, lastGet, pollSeen, pollLast, lastCleanup,
                   tornDown>>

\* The outcomes that can occur for the handles the room has: a handle that is
\* absent (or a bot that has already exited) leaves nothing to choose.
NoOutcome == [bot |-> "exits", pi |-> "rc_zero", video |-> "rc_zero"]

Applicable(room_url, o) ==
    IF room_url \notin DOMAIN active_rooms
    THEN o = NoOutcome
    ELSE LET room_info == active_rooms[room_url]
         IN /\ (  ~(room_info.bot_pid \in DOMAIN bot_procs /\ procAlive[room_info.bot_pid])
                 => o.bot = "exits")
            /\ (room_info.pi_client_pid = NoPid => o.pi = "rc_zero")
            /\ (room_info.video_service_pid = NoPid => o.video = "rc_zero")

StartAgent == ServerOnly /\ \E room_url \in Rooms, ok \in BOOLEAN : start_agent(room_url, ok)
RtviConnect == ServerOnly /\ \E room_url \in Rooms, ok \in BOOLEAN : rtvi_connect(room_url, ok)
BotExits == ServerOnly /\ \E pid \in BotPids : BotExit(pid)
UpdateStatus ==
    /\ ServerOnly
    /\ \E identifier \in 1 .. (nextIdent - 1), text \in {0, nAppends + 1} :
        update_conversation_status(identifier, text)
GetStatus ==
    /\ ServerOnly
    /\ \E identifier \in 1 .. (nextIdent - 1), last_seen \in 0 .. MaxAppends :
        get_conversation_status(identifier, last_seen)
Poll == ServerOnly /\ \E identifier \in 1 .. (nextIdent - 1) : FrontendPoll(identifier)
CleanupRoom ==
    /\ ServerOnly
    /\ \E room_url \in Rooms, o \in Outcomes :
        /\ Applicable(room_url, o)
        /\ cleanup_room_endpoint(room_url, o)
ListRooms ==
    /\ ServerOnly
    /\ \E outs \in [rooms_to_remove -> Outcomes] :
        /\ \A room_url \in rooms_to_remove : Applicable(room_url, outs[room_url])
        /\ list_active_rooms(outs)
\* A process started on the Pi registers its own pid, once.
RegisterPi ==
    /\ ServerOnly
    /\ nextRemote <= MaxRemote
    /\ nextRemote' = nextRemote + 1
    /\ \E room_url \in Rooms : register_pi_client(room_url, nextRemote)
RegisterVideo ==
    /\ ServerOnly
    /\ nextRemote <= MaxRemote
    /\ nextRemote' = nextRemote + 1
    /\ \E room_url \in Rooms : register_video_service(room_url, nextRemote)

\* The session registry and process supervisor.
RegistryNext ==
    \/ StartAgent
    \/ RtviConnect
    \/ BotExits
    \/ CleanupRoom
    \/ ListRooms
    \/ RegisterPi
    \/ RegisterVideo

\* The status log: its writer, its readers and session teardown.
StatusNext ==
    \/ RtviConnect
    \/ UpdateStatus
    \/ GetStatus
    \/ CleanupRoom

\* The status log read by polling front-ends only.
PollNext ==
    \/ RtviConnect
    \/ UpdateStatus
    \/ Poll

(***************************************************************************)
(* Claims about Part I                                                     *)
(***************************************************************************)

\* C1: at every instant each room has at most one tracked bot process that is
\* alive, whichever creation entry point (/ or /connect) the requests used.
SingleLiveBotPerRoom ==
    \A room_url \in Rooms : num_bots_in_room(room_url) <= MAX_BOTS_PER_ROOM

\* C4: cleanup_room never raises, and when it returns the room is absent from
\* active_rooms and the participant's status log is absent, whatever the
\* termination of each handle did.
CleanupNeverRaisesAndFreesRoom ==
    lastCleanup.called =>
        /\ ~lastCleanup.raised
        /\ ~lastCleanup.room_left
        /\ ~lastCleanup.log_left

\* C5: when the remote kill of a registered remote handle could not reach or
\* kill the process (ssh returned non-zero, or timed out), the report marks
\* that handle as failed, not as terminated, and the session is removed.
UnreachableRemoteReportedFailed ==
    (lastCleanup.called /\ lastCleanup.known /\ ~lastCleanup.raised) =>
        /\ (lastCleanup.outcome.pi \in {"rc_nonzero", "timeout"}
              => /\ ~lastCleanup.result.pi_client_terminated
                 /\ lastCleanup.result.errors # <<>>)
        /\ (lastCleanup.outcome.video \in {"rc_nonzero", "timeout"}
              => /\ ~lastCleanup.result.video_service_terminated
                 /\ lastCleanup.result.errors # <<>>)
        /\ ~lastCleanup.room_left

\* C7: get(identifier, since_index) returns exactly the entries of the log with
\* index >= since_index, in append order, and total_count is the number of
\* entries appended to the log.
GetReturnsEntriesSince ==
    (lastGet.called /\ lastGet.found) =>
        /\ lastGet.status_messages =
              SubSeq(lastGet.log, lastGet.last_seen + 1, Len(lastGet.log))
        /\ lastGet.total_message_count = Len(lastGet.log)

\* C8: a front-end that polls with since_index = the total_count of its
\* previous poll has, after each poll, received every entry appended to the
\* log so far exactly once and in append order.
PollerSeesEveryEntryOnce ==
    lastGet.called => pollSeen[lastGet.identifier] = lastGet.log

\* C9: get is a pure read and entries are immutable: a step that is not a
\* status update leaves every stored log that survives it exactly as it was,
\* an update only appends, and a log disappears only by session teardown.
StatusLogOnlyAppendedOrTornDown ==
    [][\A i \in DOMAIN participant_status :
          IF i \in DOMAIN participant_status'
          THEN LET old == participant_status[i].status_messages
                   new == participant_status'[i].status_messages
               IN /\ Len(new) >= Len(old)
                  /\ SubSeq(new, 1, Len(old)) = old
                  /\ (nAppends' = nAppends => new = old)
          ELSE i \in tornDown']_vars

\* C12: a creation request (GET / or POST /connect) for a room that a live
\* bot already serves is rejected: it spawns no process and leaves the
\* process table and the room registry unchanged.
DuplicateCreationRejected ==
    [][\A room_url \in Rooms :
          (/\ LiveBots(room_url) # {}
           /\ \E popenOk \in BOOLEAN :
                  start_agent(room_url, popenOk) \/ rtvi_connect(room_url, popenOk))
          => UNCHANGED <<bot_procs, procAlive, active_rooms, nextPid>>]_vars

\* C13: when cleanup_room has returned for a room, no bot spawned for that
\* room is alive and tracked in bot_procs.
NoBotAliveAfterCleanup ==
    [][\A room_url \in Rooms :
          ((\E o \in Outcomes : cleanup_room_endpoint(room_url, o)) /\ ~lastCleanup'.raised)
          => \A pid \in DOMAIN bot_procs' : ~(bot_procs'[pid] = room_url /\ procAlive'[pid])]_vars

\* C28: when the launch of the bot process fails during session creation,
\* no process-table entry and no session entry is recorded, and the
\* sessions and status logs that existed are unchanged.
SpawnFailureLeavesRegistry ==
    [][\A room_url \in Rooms :
          (start_agent(room_url, FALSE) \/ rtvi_connect(room_url, FALSE))
          => UNCHANGED <<bot_procs, procAlive, active_rooms, participant_status,
                         nextPid>>]_vars

SpawnFailedWithSessionPresent ==
    /\ nextIdent > nextPid
    /\ DOMAIN active_rooms # {}

\* C29: after the sweep of list_active_rooms no session is left whose bot
\* has exited, each such session is gone with its bot handle and its status
\* log, and every session whose bot is alive is unchanged.
DeadSessions ==
    {room_url \in DOMAIN active_rooms : ~procAlive[active_rooms[room_url].bot_pid]}

SweepRemovesExactlyDeadSessions ==
    [][ListRooms
          => /\ \A room_url \in DeadSessions :
                  /\ room_url \notin DOMAIN active_rooms'
                  /\ active_rooms[room_url].bot_pid \notin DOMAIN bot_procs'
                  /\ active_rooms[room_url].identifier \notin DOMAIN participant_status'
             /\ \A room_url \in DOMAIN active_rooms \ DeadSessions :
                  /\ room_url \in DOMAIN active_rooms'
                  /\ active_rooms'[room_url] = active_rooms[room_url]
                  /\ active_rooms[room_url].bot_pid \in DOMAIN bot_procs'
                  /\ procAlive'[active_rooms[room_url].bot_pid]
             /\ \A room_url \in DOMAIN active_rooms' :
                  procAlive'[active_rooms'[room_url].bot_pid]]_vars

SweptWithLiveSessionLeft ==
    /\ tornDown # {}
    /\ ~lastCleanup.called
    /\ DOMAIN active_rooms # {}

\* C30: every remote process registered for a room, each of several
\* registrations of one role included, is issued a remote kill when
\* cleanup_room runs for the room.
EveryRegisteredRemoteKilled ==
    [][\A room_url \in Rooms :
          ((\E o \in Outcomes : cleanup_room_endpoint(room_url, o))
              /\ lastCleanup'.known /\ ~lastCleanup'.raised)
          => registered[room_url] \subseteq lastCleanup'.result.ssh_kills]_vars

\* The processes a cleanup_room call for the room sends a signal to: the
\* tracked bot handle that has not exited, and each registered remote pid.
Signalled(room_url) ==
    IF room_url \notin DOMAIN active_rooms
    THEN {}
    ELSE LET room_info == active_rooms[room_url]
         IN (IF /\ room_info.bot_pid # NoPid
                /\ room_info.bot_pid \in DOMAIN bot_procs
                /\ procAlive[room_info.bot_pid]
             THEN {<<"bot", room_info.bot_pid>>} ELSE {})
            \cup (IF room_info.pi_client_pid # NoPid
                  THEN {<<"pi_client", room_info.pi_client_pid>>} ELSE {})
            \cup (IF room_info.video_service_pid # NoPid
                  THEN {<<"video_service", room_info.video_service_pid>>} ELSE {})

\* The last cleanup_room call was for this room, and the room has not been
\* given a new session since (identifiers are unique per creation).
CalledBefore(room_url) ==
    /\ lastCleanup.called
    /\ lastCleanup.room_url = room_url
    /\ room_url \in DOMAIN active_rooms
          => /\ lastCleanup.known
             /\ active_rooms[room_url].identifier = lastCleanup.room_info.identifier

\* No creation request was ever made for the room.
NeverCreated(room_url) ==
    /\ room_url \notin DOMAIN active_rooms
    /\ \A pid \in DOMAIN bot_procs : bot_procs[pid] # room_url
    /\ ~(lastCleanup.called /\ lastCleanup.room_url = room_url /\ lastCleanup.known)

\* C31: a cleanup_room call that repeats the previous call for the same
\* room, or that names a room that was never created, does not raise, signals
\* no process, and leaves the registry, the process table and every status
\* log as they were.
RepeatedCleanupIsNoOp ==
    [][\A room_url \in Rooms :
          (/\ \E o \in Outcomes : cleanup_room_endpoint(room_url, o)
           /\ CalledBefore(room_url) \/ NeverCreated(room_url))
          => /\ ~lastCleanup'.raised
             /\ Signalled(room_url) = {}
             /\ UNCHANGED <<bot_procs, procAlive, active_rooms,
                            participant_status>>]_vars

\* C38: once cleanup_room has removed the status log of a participant, a
\* status update for that participant that arrives afterwards does not
\* bring a log back: the log of a torn-down session stays absent, and get
\* keeps answering with the not-found default.
TornDownLogStaysAbsent ==
    \A identifier \in tornDown :
        /\ identifier \notin DOMAIN participant_status
        /\ ~GetAnswer(identifier, 0).found

\* C40: in every reachable state the bot pid of every session is a key of
\* the process table, and every bot in the process table is the bot of a
\* session of its room, so that cleanup_room of the room reaches it.
RegistryMatchesProcessTable ==
    /\ \A room_url \in DOMAIN active_rooms :
          active_rooms[room_url].bot_pid \in DOMAIN bot_procs
    /\ \A pid \in DOMAIN bot_procs :
          /\ bot_procs[pid] \in DOMAIN active_rooms
          /\ active_rooms[bot_procs[pid]].bot_pid = pid

(***************************************************************************)
(* cleanup_room followed through its blocking waits.  cleanup_room is a     *)
(* plain function called from the request handler, so no other request is  *)
(* served while it waits; the processes it waits for run on their own.     *)
(***************************************************************************)

NoRoom == "none"

TeardownInit ==
    /\ cuPc = "idle"
    /\ cuRoom = NoRoom
    /\ cuOut = NoOutcome
    /\ cuResult = EmptyResult
    /\ sshHangs = FALSE
    /\ nCleanups = 0

\* proc.wait(timeout=5): returns once the process has exited, raises
\* TimeoutExpired when the timeout has run out first; without a timeout it
\* blocks while the process runs.
proc_wait(pid, has_timeout) ==
    IF ~procAlive[pid] THEN {"exited"}
    ELSE IF has_timeout THEN {"expired"} ELSE {}

\* subprocess.run(['ssh', ...], check=False, timeout=5): the exit status of a
\* command that completes, TimeoutExpired for one that hangs; without a
\* timeout it blocks on a command that hangs.
subprocess_run(hangs, has_timeout) ==
    IF ~hangs THEN {"rc_zero", "rc_nonzero"}
    ELSE IF has_timeout THEN {"timeout"} ELSE {}

\* Where the call waits next, after the bot handle and after the Pi client.
AfterPi(room_info) ==
    IF room_info.video_service_pid # NoPid THEN "wait_video" ELSE "finish"

AfterBot(room_info) ==
    IF room_info.pi_client_pid # NoPid THEN "wait_pi" ELSE AfterPi(room_info)

\* The call goes on to its next wait, or ends: it raises, or it runs lines
\* 151-162 and returns.
Proceed(room_url, r, o, pc) ==
    /\ IF r.raised \/ pc = "finish"
       THEN LET room_info == active_rooms[room_url]
                rf == IF r.raised
                      THEN r
                      ELSE CleanupTracking(CleanupRemote(r, room_info, o),
                                           room_url, room_info)
            IN /\ SetServerState(rf.st)
               /\ lastCleanup' = CleanupRecord(room_url, o, rf)
               /\ registered' = RegisteredLeft(rf.st)
               /\ cuPc' = "idle"
               /\ cuRoom' = NoRoom
               /\ cuOut' = NoOutcome
               /\ cuResult' = EmptyResult
               /\ sshHangs' = FALSE
       ELSE /\ SetServerState(r.st)
            /\ cuPc' = pc
            /\ cuRoom' = room_url
            /\ cuOut' = o
            /\ cuResult' = r.result
            /\ sshHangs' \in BOOLEAN
            /\ UNCHANGED <<lastCleanup, registered>>
    /\ UNCHANGED <<nextPid, nextIdent, nAppends, lastGet, pollSeen, pollLast,
                   nextRemote>>

\* Lines 85-106: the call starts; proc.terminate() sends SIGTERM or raises.
CleanupBegin(room_url, terminate_raises) ==
    /\ cuPc = "idle"
    /\ nCleanups < MaxCleanups
    /\ nCleanups' = nCleanups + 1
    /\ IF room_url \notin DOMAIN active_rooms
       THEN /\ cleanup_room_endpoint(room_url, NoOutcome)
            /\ UNCHANGED <<cuPc, cuRoom, cuOut, cuResult, sshHangs>>
       ELSE LET room_info == active_rooms[room_url]
                bot_pid == room_info.bot_pid
                running == /\ bot_pid # NoPid
                           /\ bot_pid \in DOMAIN bot_procs
                           /\ procAlive[bot_pid]
                o == [NoOutcome EXCEPT
                         !.bot = IF running THEN "terminate_raises" ELSE "exits"]
            IN IF running /\ ~terminate_raises
               THEN /\ cuPc' = "wait_bot"
                    /\ cuRoom' = room_url
                    /\ UNCHANGED <<serverVars, cuOut, cuResult, sshHangs>>
               ELSE Proceed(room_url, CleanupBot(ServerState, room_info, o), o,
                            AfterBot(room_info))

\* Lines 107-118: proc.wait(timeout=5), and proc.kill() when it has expired.
CleanupWaitBot(kill_ok) ==
    /\ cuPc = "wait_bot"
    /\ LET room_info == active_rooms[cuRoom]
       IN \E w \in proc_wait(room_info.bot_pid, TRUE) :
            LET out == IF w = "exited" THEN "exits"
                       ELSE IF kill_ok THEN "kill_ok" ELSE "kill_raises"
                o == [NoOutcome EXCEPT !.bot = out]
            IN Proceed(cuRoom, CleanupBot(ServerState, room_info, o), o,
                       AfterBot(room_info))
    /\ UNCHANGED nCleanups

\* Lines 122-134: the ssh kill of the Pi client.
CleanupWaitPi ==
    /\ cuPc = "wait_pi"
    /\ LET room_info == active_rooms[cuRoom]
       IN \E x \in subprocess_run(sshHangs, TRUE) :
            Proceed(cuRoom,
                    [st |-> ServerState, result |-> cuResult, raised |-> FALSE],
                    [cuOut EXCEPT !.pi = x], AfterPi(room_info))
    /\ UNCHANGED nCleanups

\* Lines 137-149: the ssh kill of the video service.
CleanupWaitVideo ==
    /\ cuPc = "wait_video"
    /\ LET room_info == active_rooms[cuRoom]
       IN \E x \in subprocess_run(sshHangs, TRUE) :
            Proceed(cuRoom,
                    [st |-> ServerState, result |-> cuResult, raised |-> FALSE],
                    [cuOut EXCEPT !.video = x], "finish")
    /\ UNCHANGED nCleanups

CleanupBegins ==
    /\ TeardownOnly
    /\ \E room_url \in Rooms, terminate_raises \in BOOLEAN :
          CleanupBegin(room_url, terminate_raises)
CleanupWaitsBot == TeardownOnly /\ \E kill_ok \in BOOLEAN : CleanupWaitBot(kill_ok)
CleanupWaitsPi == TeardownOnly /\ CleanupWaitPi
CleanupWaitsVideo == TeardownOnly /\ CleanupWaitVideo

\* The server while a cleanup_room call may be waiting: requests are served
\* between calls only, processes exit at any time.
TeardownNext ==
    \/ cuPc = "idle" /\ RtviConnect
    \/ cuPc = "idle" /\ RegisterPi
    \/ cuPc = "idle" /\ RegisterVideo
    \/ BotExits
    \/ CleanupBegins
    \/ CleanupWaitsBot
    \/ CleanupWaitsPi
    \/ CleanupWaitsVideo

\* The steps of a cleanup_room call that has started.
CleanupStep == CleanupWaitsBot \/ CleanupWaitsPi \/ CleanupWaitsVideo

\* What the bot handle of the call did, as known after a step.
BotOutcomeAfter == IF cuPc' = "idle" THEN lastCleanup'.outcome.bot ELSE cuOut'.bot

\* C32: a cleanup_room call that has started always returns: the bot is
\* sent the termination signal first and the forced kill is issued only when
\* the bounded wait has expired with the process still running, and no wait
\* on the bot or on a remote command lasts forever, whether the process
\* ignores the signal or the remote command hangs.
CleanupAlwaysReturns ==
    /\ [][(CleanupBegins /\ \E room_url \in DOMAIN active_rooms : Signalled(room_url) # {})
             => BotOutcomeAfter \notin {"kill_ok", "kill_raises"}]_vars
    /\ [][CleanupWaitsBot
             => (BotOutcomeAfter \in {"kill_ok", "kill_raises"}
                    <=> procAlive[active_rooms[cuRoom].bot_pid])]_vars
    /\ (cuPc # "idle") ~> (cuPc = "idle" /\ lastCleanup.called /\ ~lastCleanup.raised)

(***************************************************************************)
(* Part II.  video_playback_service_vlc.py                                 *)
(*                                                                         *)
(* Every `with process_lock:` block is one step: the blocks exclude one    *)
(* another, and what runs outside the lock (pkill, the monitor's reads of  *)
(* the globals, the exit of a process) is a step of its own.  pkill is     *)
(* taken to work: it kills every vlc process that runs.                    *)
(***************************************************************************)
MaxVlc == 1 + 2 * MaxPlays + MaxStops       \* every Popen the bounds allow
VlcPids == 1 .. MaxVlc
Plays == 1 .. MaxPlays
Stops == 1 .. MaxStops
NoProc == 0

PlaybackInit ==
    /\ current_process = NoProc
    /\ is_playing_static = FALSE
    /\ vlcKind = [p \in VlcPids |-> "none"]
    /\ vlcAlive = [p \in VlcPids |-> FALSE]
    /\ vlcOrigin = [p \in VlcPids |-> NoProc]
    /\ superseded = {}
    /\ nextVlc = 1
    /\ started = FALSE
    /\ playPc = [t \in Plays |-> "idle"]
    /\ monPc = [t \in Plays |-> "none"]
    /\ monProc = [t \in Plays |-> NoProc]
    /\ monWasStatic = [t \in Plays |-> FALSE]
    /\ statPc = [t \in Plays |-> "none"]
    /\ stopPc = [s \in Stops |-> "idle"]

\* current_process and current_process.poll() is None
SomethingPlaying == current_process # NoProc /\ vlcAlive[current_process]

\* subprocess.Popen(cmd) succeeded: a new vlc process runs and is tracked.
Popen(kind, origin) ==
    /\ vlcKind' = [vlcKind EXCEPT ![nextVlc] = kind]
    /\ vlcAlive' = [vlcAlive EXCEPT ![nextVlc] = TRUE]
    /\ vlcOrigin' = [vlcOrigin EXCEPT ![nextVlc] = origin]
    /\ current_process' = nextVlc
    /\ nextVlc' = nextVlc + 1

\* start_static_if_nothing_playing(), the whole locked block.  origin is the
\* clip whose monitor started the thread, NoProc for start-up and stop.
start_static_if_nothing_playing(popenOk, origin) ==
    IF SomethingPlaying
    THEN UNCHANGED <<current_process, is_playing_static, vlcKind, vlcAlive,
                     vlcOrigin, nextVlc>>
    ELSE IF popenOk
    THEN /\ Popen("static", origin)
         /\ is_playing_static' = TRUE
    ELSE UNCHANGED <<current_process, is_playing_static, vlcKind, vlcAlive,
                     vlcOrigin, nextVlc>>

\* __main__: the static loop is started before the server accepts requests.
MainStart(popenOk) ==
    /\ PlaybackOnly
    /\ ~started
    /\ started' = TRUE
    /\ start_static_if_nothing_playing(popenOk, NoProc)
    /\ UNCHANGED <<superseded, playPc, monPc, monProc, monWasStatic, statPc, stopPc>>

\* play_video, lines 111-119: the file does not exist, nothing is touched.
PlayNotFound(t) ==
    /\ PlaybackOnly
    /\ started
    /\ playPc[t] = "idle"
    /\ playPc' = [playPc EXCEPT ![t] = "done"]
    /\ UNCHANGED <<current_process, is_playing_static, vlcKind, vlcAlive, vlcOrigin,
                   superseded, nextVlc, started, monPc, monProc, monWasStatic,
                   statPc, stopPc>>

\* play_video, lines 123-127: pkill -9 vlc, outside the lock.
PlayKill(t) ==
    /\ PlaybackOnly
    /\ started
    /\ playPc[t] = "idle"
    /\ playPc' = [playPc EXCEPT ![t] = "clear"]
    /\ vlcAlive' = [p \in VlcPids |-> FALSE]
    /\ superseded' = superseded \cup
                        {p \in VlcPids : vlcAlive[p] /\ vlcKind[p] = "content"}
    /\ UNCHANGED <<current_process, is_playing_static, vlcKind, vlcOrigin, nextVlc,
                   started, monPc, monProc, monWasStatic, statPc, stopPc>>

\* play_video, lines 129-133: forget the handle of whatever was tracked.
PlayClear(t) ==
    /\ PlaybackOnly
    /\ playPc[t] = "clear"
    /\ playPc' = [playPc EXCEPT ![t] = "launch"]
    /\ IF current_process # NoProc
       THEN /\ current_process' = NoProc
            /\ is_playing_static' = FALSE
       ELSE UNCHANGED <<current_process, is_playing_static>>
    /\ UNCHANGED <<vlcKind, vlcAlive, vlcOrigin, superseded, nextVlc, started,
                   monPc, monProc, monWasStatic, statPc, stopPc>>

\* play_video, lines 154-164: launch the clip under the lock.  A failed
\* Popen raises, and play_video returns (False, ...) from its except clause.
PlayLaunch(t, popenOk) ==
    /\ PlaybackOnly
    /\ playPc[t] = "launch"
    /\ IF popenOk
       THEN /\ Popen("content", NoProc)
            /\ is_playing_static' = FALSE
            /\ playPc' = [playPc EXCEPT ![t] = "pid"]
       ELSE /\ playPc' = [playPc EXCEPT ![t] = "failed"]
            /\ UNCHANGED <<current_process, is_playing_static, vlcKind, vlcAlive,
                           vlcOrigin, nextVlc>>
    /\ UNCHANGED <<superseded, started, monPc, monProc, monWasStatic, statPc, stopPc>>

\* play_video, lines 166-176: pid = current_process.pid, read outside the
\* lock (None by now raises into the except clause), then the monitor
\* thread is started.
PlayStartMonitor(t) ==
    /\ PlaybackOnly
    /\ playPc[t] = "pid"
    /\ IF current_process = NoProc
       THEN /\ playPc' = [playPc EXCEPT ![t] = "failed"]
            /\ UNCHANGED monPc
       ELSE /\ playPc' = [playPc EXCEPT ![t] = "done"]
            /\ monPc' = [monPc EXCEPT ![t] = "start"]
    /\ UNCHANGED <<current_process, is_playing_static, vlcKind, vlcAlive, vlcOrigin,
                   superseded, nextVlc, started, monProc, monWasStatic, statPc, stopPc>>

\* monitor_playback, lines 80-81: proc_to_monitor = current_process
MonitorReadProcess(t) ==
    /\ PlaybackOnly
    /\ monPc[t] = "start"
    /\ IF current_process = NoProc
       THEN /\ monPc' = [monPc EXCEPT ![t] = "done"]
            /\ UNCHANGED monProc
       ELSE /\ monPc' = [monPc EXCEPT ![t] = "read_static"]
            /\ monProc' = [monProc EXCEPT ![t] = current_process]
    /\ UNCHANGED <<current_process, is_playing_static, vlcKind, vlcAlive, vlcOrigin,
                   superseded, nextVlc, started, playPc, monWasStatic, statPc, stopPc>>

\* monitor_playback, line 82: was_static = is_playing_static
MonitorReadStatic(t) ==
    /\ PlaybackOnly
    /\ monPc[t] = "read_static"
    /\ monPc' = [monPc EXCEPT ![t] = "wait"]
    /\ monWasStatic' = [monWasStatic EXCEPT ![t] = is_playing_static]
    /\ UNCHANGED <<current_process, is_playing_static, vlcKind, vlcAlive, vlcOrigin,
                   superseded, nextVlc, started, playPc, monProc, statPc, stopPc>>

\* A monitor that clears the slot and restarts the static loop without
\* comparing the slot with the process it waited on.
MonitorWakeWithoutCompare(t) ==
    /\ PlaybackOnly
    /\ monPc[t] = "wait"
    /\ ~vlcAlive[monProc[t]]
    /\ monPc' = [monPc EXCEPT ![t] = "done"]
    /\ current_process' = NoProc
    /\ is_playing_static' = FALSE
    /\ statPc' = IF ~monWasStatic[t]
                 THEN [statPc EXCEPT ![t] = "ready"]
                 ELSE statPc
    /\ UNCHANGED <<vlcKind, vlcAlive, vlcOrigin, superseded, nextVlc, started,
                   playPc, monProc, monWasStatic, stopPc>>

\* monitor_playback, lines 83-93: proc_to_monitor.wait() has returned; under
\* the lock the slot is cleared if it still holds the monitored process, and
\* the static thread is started unless the monitored process was static.
MonitorWake(t) ==
    /\ PlaybackOnly
    /\ monPc[t] = "wait"
    /\ ~vlcAlive[monProc[t]]
    /\ monPc' = [monPc EXCEPT ![t] = "done"]
    /\ IF current_process = monProc[t]
       THEN /\ current_process' = NoProc
            /\ is_playing_static' = FALSE
            /\ statPc' = IF ~monWasStatic[t]
                         THEN [statPc EXCEPT ![t] = "ready"]
                         ELSE statPc
       ELSE UNCHANGED <<current_process, is_playing_static, statPc>>
    /\ UNCHANGED <<vlcKind, vlcAlive, vlcOrigin, superseded, nextVlc, started,
                   playPc, monProc, monWasStatic, stopPc>>

\* The thread of line 93 runs start_static_if_nothing_playing.
StaticThread(t, popenOk) ==
    /\ PlaybackOnly
    /\ statPc[t] = "ready"
    /\ statPc' = [statPc EXCEPT ![t] = "done"]
    /\ start_static_if_nothing_playing(popenOk, monProc[t])
    /\ UNCHANGED <<superseded, started, playPc, monPc, monProc, monWasStatic, stopPc>>

\* stop_playback, lines 186-197: terminate (or kill) what is running.
StopKill(s) ==
    /\ PlaybackOnly
    /\ started
    /\ stopPc[s] = "idle"
    /\ stopPc' = [stopPc EXCEPT ![s] = "static"]
    /\ IF SomethingPlaying
       THEN /\ vlcAlive' = [vlcAlive EXCEPT ![current_process] = FALSE]
            /\ current_process' = NoProc
            /\ is_playing_static' = FALSE
       ELSE UNCHANGED <<vlcAlive, current_process, is_playing_static>>
    /\ UNCHANGED <<vlcKind, vlcOrigin, superseded, nextVlc, started, playPc, monPc,
                   monProc, monWasStatic, statPc>>

\* stop_playback, line 200: start static after stopping.
StopStatic(s, popenOk) ==
    /\ PlaybackOnly
    /\ stopPc[s] = "static"
    /\ stopPc' = [stopPc EXCEPT ![s] = "done"]
    /\ start_static_if_nothing_playing(popenOk, NoProc)
    /\ UNCHANGED <<superseded, started, playPc, monPc, monProc, monWasStatic, statPc>>

\* A clip reaches its end time (--play-and-exit) and its process exits.
ContentExit(p) ==
    /\ PlaybackOnly
    /\ vlcAlive[p]
    /\ vlcKind[p] = "content"
    /\ vlcAlive' = [vlcAlive EXCEPT ![p] = FALSE]
    /\ UNCHANGED <<current_process, is_playing_static, vlcKind, vlcOrigin, superseded,
                   nextVlc, started, playPc, monPc, monProc, monWasStatic, statPc,
                   stopPc>>

PlaybackNext ==
    \/ \E ok \in BOOLEAN : MainStart(ok)
    \/ \E t \in Plays : PlayNotFound(t)
    \/ \E t \in Plays : PlayKill(t)
    \/ \E t \in Plays : PlayClear(t)
    \/ \E t \in Plays, ok \in BOOLEAN : PlayLaunch(t, ok)
    \/ \E t \in Plays : PlayStartMonitor(t)
    \/ \E t \in Plays : MonitorReadProcess(t)
    \/ \E t \in Plays : MonitorReadStatic(t)
    \/ \E t \in Plays : MonitorWake(t)
    \/ \E t \in Plays, ok \in BOOLEAN : StaticThread(t, ok)
    \/ \E s \in Stops : StopKill(s)
    \/ \E s \in Stops, ok \in BOOLEAN : StopStatic(s, ok)
    \/ \E p \in VlcPids : ContentExit(p)

\* Requests that arrive one at a time: a /play or /stop request is made only
\* when every earlier play_video and stop_playback call has returned.  The
\* monitor and static threads those calls started keep running.
NoCallRunning ==
    /\ \A t \in Plays : playPc[t] \in {"idle", "done", "failed"}
    /\ \A s \in Stops : stopPc[s] \in {"idle", "done"}

PlaybackSeqNext ==
    \/ \E ok \in BOOLEAN : MainStart(ok)
    \/ \E t \in Plays : NoCallRunning /\ PlayNotFound(t)
    \/ \E t \in Plays : NoCallRunning /\ PlayKill(t)
    \/ \E t \in Plays : PlayClear(t)
    \/ \E t \in Plays, ok \in BOOLEAN : PlayLaunch(t, ok)
    \/ \E t \in Plays : PlayStartMonitor(t)
    \/ \E t \in Plays : MonitorReadProcess(t)
    \/ \E t \in Plays : MonitorReadStatic(t)
    \/ \E t \in Plays : MonitorWake(t)
    \/ \E t \in Plays, ok \in BOOLEAN : StaticThread(t, ok)
    \/ \E s \in Stops : NoCallRunning /\ StopKill(s)
    \/ \E s \in Stops, ok \in BOOLEAN : StopStatic(s, ok)
    \/ \E p \in VlcPids : ContentExit(p)

(***************************************************************************)
(* Claims about Part II                                                    *)
(***************************************************************************)
LivePlayers == {p \in VlcPids : vlcAlive[p]}

\* C2: at every instant at most one media-player process (clip or static
\* loop) is alive, for any interleaving of play, stop, monitor and
\* static-thread steps.
AtMostOnePlayerAlive == Cardinality(LivePlayers) <= 1

\* C3: the idle loop that the monitor of a superseded clip asked for is never
\* running while a later play is between its pkill and its launch or while a
\* clip is alive: a stale monitor does not start idle playback over the clip
\* that superseded its own.
StaleMonitorNeverStartsIdle ==
    \A p \in VlcPids :
        (vlcKind[p] = "static" /\ vlcAlive[p] /\ vlcOrigin[p] \in superseded) =>
            /\ \A t \in Plays : playPc[t] \notin {"clear", "launch", "pid"}
            /\ \A q \in VlcPids : ~(vlcKind[q] = "content" /\ vlcAlive[q])

IdleAlive == \E p \in VlcPids : vlcKind[p] = "static" /\ vlcAlive[p]

\* C21: when the launch of a clip fails, play_video returns its failure with
\* the idle loop running again.
FailedPlayRestartsIdle ==
    [][\A t \in Plays :
          (playPc[t] # "failed" /\ playPc'[t] = "failed") => IdleAlive']_vars

\* C22: when stop_playback has completed, with its launch of the static loop
\* succeeding, exactly one player is alive, it is the static loop and it is
\* the tracked process: from idle, from content and from nothing running.
StopLeavesSingleIdle ==
    [][\A s \in Stops :
          (stopPc[s] = "static" /\ stopPc'[s] = "done" /\ nextVlc' # nextVlc)
          => /\ LivePlayers' = {current_process'}
             /\ vlcKind'[current_process'] = "static"
             /\ is_playing_static']_vars

\* C23: the idle loop is the fallback: from a state reached through play and
\* stop calls, launch failures and process exits, here one in which the
\* launch of a clip has failed, the static loop is eventually alive.
IdleEventuallyAlive == (\E t \in Plays : playPc[t] = "failed") ~> IdleAlive

\* C35: a monitor changes the tracked-process slot, clearing it and
\* starting the static thread, only when under the lock the slot holds the
\* very process the monitor waited on; a monitor whose process has been
\* replaced in the slot leaves the slot, the static flag and the static
\* threads untouched.
MonitorActsOnlyOnOwnProcess ==
    [][\A t \in Plays :
          (MonitorReadProcess(t) \/ MonitorReadStatic(t) \/ MonitorWake(t))
          => IF monPc[t] = "wait" /\ current_process = monProc[t]
             THEN /\ current_process' = NoProc
                  /\ ~is_playing_static'
                  /\ (statPc'[t] = "ready") <=> ~monWasStatic[t]
             ELSE UNCHANGED <<current_process, is_playing_static, statPc>>]_vars

StaleMonitorLeftNewerClipTracked ==
    \E t \in Plays :
        /\ monPc[t] = "done"
        /\ monProc[t] # NoProc
        /\ ~monWasStatic[t]
        /\ statPc[t] = "none"
        /\ current_process \notin {NoProc, monProc[t]}
        /\ vlcKind[current_process] = "content"
        /\ vlcAlive[current_process]

(***************************************************************************)
(* Part II, the mpv service.  video_playback_service_mpv.py                *)
(*                                                                         *)
(* Requests arrive one at a time; the monitor threads they start keep      *)
(* running.  Every `with process_lock:` block is one step, and so is each  *)
(* read of the global outside the lock.                                    *)
(***************************************************************************)
MaxMpv == 2 * MaxPlays                  \* every Popen the bounds allow
MpvPids == 1 .. MaxMpv

MpvInit ==
    /\ mpv_current_process = NoProc
    /\ mpvKind = [p \in MpvPids |-> "none"]
    /\ mpvAlive = [p \in MpvPids |-> FALSE]
    /\ nextMpv = 1
    /\ mpvPlayPc = [t \in Plays |-> "idle"]
    /\ mpvMonPc = [t \in Plays |-> "none"]
    /\ mpvMonProc = [t \in Plays |-> NoProc]
    /\ mpvStops = 0

\* subprocess.Popen(cmd) succeeded, under the lock: the handle is tracked.
MpvPopen(kind) ==
    /\ mpvKind' = [mpvKind EXCEPT ![nextMpv] = kind]
    /\ mpvAlive' = [mpvAlive EXCEPT ![nextMpv] = TRUE]
    /\ mpv_current_process' = nextMpv
    /\ nextMpv' = nextMpv + 1

\* stop_playback(), the whole locked block: pkill -9 mpv ends every player,
\* and the tracked handle is dropped.
mpv_stop_playback ==
    /\ mpvAlive' = [p \in MpvPids |-> FALSE]
    /\ mpv_current_process' = NoProc
    /\ UNCHANGED <<mpvKind, nextMpv>>

MpvNoCallRunning == \A t \in Plays : mpvPlayPc[t] \in {"idle", "done", "failed"}

\* play_video, lines 92-97: the file does not exist.
MpvPlayNotFound(t) ==
    /\ MpvOnly
    /\ MpvNoCallRunning
    /\ mpvPlayPc[t] = "idle"
    /\ mpvPlayPc' = [mpvPlayPc EXCEPT ![t] = "done"]
    /\ UNCHANGED <<mpv_current_process, mpvKind, mpvAlive, nextMpv, mpvMonPc,
                   mpvMonProc, mpvStops>>

\* play_video, line 100: stop any current playback.
MpvPlayStop(t) ==
    /\ MpvOnly
    /\ MpvNoCallRunning
    /\ mpvPlayPc[t] = "idle"
    /\ mpvPlayPc' = [mpvPlayPc EXCEPT ![t] = "launch"]
    /\ mpv_stop_playback
    /\ UNCHANGED <<mpvMonPc, mpvMonProc, mpvStops>>

\* play_video, lines 113-119: launch the clip under the lock.
MpvPlayLaunch(t, popenOk) ==
    /\ MpvOnly
    /\ mpvPlayPc[t] = "launch"
    /\ IF popenOk
       THEN /\ MpvPopen("content")
            /\ mpvPlayPc' = [mpvPlayPc EXCEPT ![t] = "pid"]
       ELSE /\ mpvPlayPc' = [mpvPlayPc EXCEPT ![t] = "failed"]
            /\ UNCHANGED <<mpv_current_process, mpvKind, mpvAlive, nextMpv>>
    /\ UNCHANGED <<mpvMonPc, mpvMonProc, mpvStops>>

\* play_video, lines 121-130: pid = current_process.pid, read outside the
\* lock (None by now raises into the except clause), then the monitor
\* thread is started.
MpvPlayStartMonitor(t) ==
    /\ MpvOnly
    /\ mpvPlayPc[t] = "pid"
    /\ IF mpv_current_process = NoProc
       THEN /\ mpvPlayPc' = [mpvPlayPc EXCEPT ![t] = "failed"]
            /\ UNCHANGED mpvMonPc
       ELSE /\ mpvPlayPc' = [mpvPlayPc EXCEPT ![t] = "done"]
            /\ mpvMonPc' = [mpvMonPc EXCEPT ![t] = "start"]
    /\ UNCHANGED <<mpv_current_process, mpvKind, mpvAlive, nextMpv, mpvMonProc,
                   mpvStops>>

\* monitor_playback_and_restart_static, line 61: if current_process
MpvMonitorCheck(t) ==
    /\ MpvOnly
    /\ mpvMonPc[t] = "start"
    /\ mpvMonPc' = [mpvMonPc EXCEPT ![t] =
                       IF mpv_current_process = NoProc THEN "done" ELSE "read"]
    /\ UNCHANGED <<mpv_current_process, mpvKind, mpvAlive, nextMpv, mpvPlayPc,
                   mpvMonProc, mpvStops>>

\* line 62: current_process.wait() reads the global once more; None by now
\* raises AttributeError and the thread ends.
MpvMonitorRead(t) ==
    /\ MpvOnly
    /\ mpvMonPc[t] = "read"
    /\ IF mpv_current_process = NoProc
       THEN /\ mpvMonPc' = [mpvMonPc EXCEPT ![t] = "done"]
            /\ UNCHANGED mpvMonProc
       ELSE /\ mpvMonPc' = [mpvMonPc EXCEPT ![t] = "wait"]
            /\ mpvMonProc' = [mpvMonProc EXCEPT ![t] = mpv_current_process]
    /\ UNCHANGED <<mpv_current_process, mpvKind, mpvAlive, nextMpv, mpvPlayPc,
                   mpvStops>>

\* lines 62-63: wait() has returned; the thread sleeps for half a second.
MpvMonitorWake(t) ==
    /\ MpvOnly
    /\ mpvMonPc[t] = "wait"
    /\ ~mpvAlive[mpvMonProc[t]]
    /\ mpvMonPc' = [mpvMonPc EXCEPT ![t] = "clear"]
    /\ UNCHANGED <<mpv_current_process, mpvKind, mpvAlive, nextMpv, mpvPlayPc,
                   mpvMonProc, mpvStops>>

\* lines 65-66: with process_lock: current_process = None
MpvMonitorClear(t) ==
    /\ MpvOnly
    /\ mpvMonPc[t] = "clear"
    /\ mpvMonPc' = [mpvMonPc EXCEPT ![t] = "static"]
    /\ mpv_current_process' = NoProc
    /\ UNCHANGED <<mpvKind, mpvAlive, nextMpv, mpvPlayPc, mpvMonProc, mpvStops>>

\* line 69: play_static_directly(), lines 46-54.
MpvMonitorStatic(t, popenOk) ==
    /\ MpvOnly
    /\ mpvMonPc[t] = "static"
    /\ mpvMonPc' = [mpvMonPc EXCEPT ![t] = "done"]
    /\ IF popenOk
       THEN MpvPopen("static")
       ELSE UNCHANGED <<mpv_current_process, mpvKind, mpvAlive, nextMpv>>
    /\ UNCHANGED <<mpvPlayPc, mpvMonProc, mpvStops>>

\* POST /stop
MpvStop ==
    /\ MpvOnly
    /\ MpvNoCallRunning
    /\ mpvStops < MaxStops
    /\ mpvStops' = mpvStops + 1
    /\ mpv_stop_playback
    /\ UNCHANGED <<mpvPlayPc, mpvMonPc, mpvMonProc>>

\* A clip reaches its end time and its process exits.
MpvContentExit(p) ==
    /\ MpvOnly
    /\ mpvAlive[p]
    /\ mpvKind[p] = "content"
    /\ mpvAlive' = [mpvAlive EXCEPT ![p] = FALSE]
    /\ UNCHANGED <<mpv_current_process, mpvKind, nextMpv, mpvPlayPc, mpvMonPc,
                   mpvMonProc, mpvStops>>

MpvNext ==
    \/ \E t \in Plays : MpvPlayNotFound(t)
    \/ \E t \in Plays : MpvPlayStop(t)
    \/ \E t \in Plays, ok \in BOOLEAN : MpvPlayLaunch(t, ok)
    \/ \E t \in Plays : MpvPlayStartMonitor(t)
    \/ \E t \in Plays : MpvMonitorCheck(t)
    \/ \E t \in Plays : MpvMonitorRead(t)
    \/ \E t \in Plays : MpvMonitorWake(t)
    \/ \E t \in Plays : MpvMonitorClear(t)
    \/ \E t \in Plays, ok \in BOOLEAN : MpvMonitorStatic(t, ok)
    \/ MpvStop
    \/ \E p \in MpvPids : MpvContentExit(p)

\* A clip other than the one the monitor waited on runs.
NewerClipRuns(t) ==
    \E p \in MpvPids : p # mpvMonProc[t] /\ mpvKind[p] = "content" /\ mpvAlive[p]

\* C36: in the mpv service a monitor that wakes after a newer clip has been
\* started neither discards the handle of the newer clip nor starts the
\* static loop over it.
MpvStaleMonitorLeavesNewerClip ==
    [][\A t \in Plays :
          /\ (MpvMonitorClear(t) /\ NewerClipRuns(t))
                => mpv_current_process' = mpv_current_process
          /\ (NewerClipRuns(t) /\ \E ok \in BOOLEAN : MpvMonitorStatic(t, ok))
                => UNCHANGED <<mpv_current_process, mpvKind, mpvAlive>>]_vars

(***************************************************************************)
(* Part III.  mcp_client.py                                                *)
(*                                                                         *)
(* The callers are coroutines of one event loop: a step runs from one      *)
(* await to the next.  The worker answers the requests it reads in order,  *)
(* each answer carrying the id of its request, after any delay.            *)
(***************************************************************************)
Callers == 1 .. MaxCalls
NoResult == [kind |-> "none", response_id |-> -1]
NoStop == [called |-> FALSE, had_process |-> FALSE, was_alive |-> FALSE, raised |-> FALSE]

RpcInit ==
    /\ mcp_client = "none"
    /\ request_id = 0
    /\ lockHeld = FALSE
    /\ toWorker = <<>>
    /\ fromWorker = <<>>
    /\ callPc = [c \in Callers |-> "idle"]
    /\ callReqId = [c \in Callers |-> -1]
    /\ callResult = [c \in Callers |-> NoResult]
    /\ sent = <<>>
    /\ workerAlive = FALSE
    /\ nStops = 0
    /\ lastStop = NoStop

\* _send_request: one JSON line on the worker's stdin.
SendRequest(method, id) ==
    /\ toWorker' = Append(toWorker, [id |-> id, method |-> method])
    /\ sent' = Append(sent, [id |-> id, method |-> method])

Return(c, kind, response_id) ==
    /\ callPc' = [callPc EXCEPT ![c] = "done"]
    /\ callResult' = [callResult EXCEPT ![c] = [kind |-> kind, response_id |-> response_id]]

\* get_mcp_client, lines 130-138: the global is assigned before start() runs.
GetClient(c) ==
    /\ RpcOnly
    /\ callPc[c] = "idle"
    /\ IF mcp_client = "none"
       THEN /\ mcp_client' = "created"
            /\ callPc' = [callPc EXCEPT ![c] = "spawn"]
       ELSE /\ callPc' = [callPc EXCEPT ![c] = "acquire"]
            /\ UNCHANGED mcp_client
    /\ UNCHANGED <<request_id, lockHeld, toWorker, fromWorker, callReqId, callResult,
                   sent, workerAlive, nStops, lastStop>>

\* start, lines 26-42: the subprocess is created and the initialize request
\* is written with id = self.request_id.  A failed spawn raises to the handler.
StartSpawn(c, spawnOk) ==
    /\ RpcOnly
    /\ callPc[c] = "spawn"
    /\ IF spawnOk
       THEN /\ mcp_client' = "spawned"
            /\ workerAlive' = TRUE
            /\ SendRequest("initialize", request_id)
            /\ callPc' = [callPc EXCEPT ![c] = "init_read"]
            /\ UNCHANGED callResult
       ELSE /\ Return(c, "error", -1)
            /\ UNCHANGED <<mcp_client, toWorker, sent, workerAlive>>
    /\ UNCHANGED <<request_id, lockHeld, fromWorker, callReqId, nStops, lastStop>>

\* start, lines 45-46: one line is read as the initialize response.
StartRead(c) ==
    /\ RpcOnly
    /\ callPc[c] = "init_read"
    /\ fromWorker # <<>>
    /\ fromWorker' = Tail(fromWorker)
    /\ callPc' = [callPc EXCEPT ![c] = "acquire"]
    /\ UNCHANGED <<mcp_client, request_id, lockHeld, toWorker, callReqId, callResult,
                   sent, workerAlive, nStops, lastStop>>

\* Acquire without waiting for the lock.
AcquireWithoutLock(c) ==
    /\ RpcOnly
    /\ callPc[c] = "acquire"
    /\ mcp_client = "spawned"
    /\ request_id' = request_id + 1
    /\ lockHeld' = TRUE
    /\ SendRequest("tools/call", request_id + 1)
    /\ callReqId' = [callReqId EXCEPT ![c] = request_id + 1]
    /\ callPc' = [callPc EXCEPT ![c] = "read"]
    /\ UNCHANGED <<callResult, mcp_client, fromWorker, workerAlive, nStops, lastStop>>

\* Acquire that numbers the request with the current request_id.
AcquireReusesId(c) ==
    /\ RpcOnly
    /\ callPc[c] = "acquire"
    /\ ~lockHeld
    /\ mcp_client = "spawned"
    /\ lockHeld' = TRUE
    /\ SendRequest("tools/call", request_id)
    /\ callReqId' = [callReqId EXCEPT ![c] = request_id]
    /\ callPc' = [callPc EXCEPT ![c] = "read"]
    /\ UNCHANGED <<request_id, callResult, mcp_client, fromWorker, workerAlive,
                   nStops, lastStop>>

\* call_tool, lines 57-72: the lock is free; take it, number the request and
\* write it.  With process still None the write raises and finally releases.
Acquire(c) ==
    /\ RpcOnly
    /\ callPc[c] = "acquire"
    /\ ~lockHeld
    /\ request_id' = request_id + 1
    /\ IF mcp_client = "spawned"
       THEN /\ lockHeld' = TRUE
            /\ SendRequest("tools/call", request_id + 1)
            /\ callReqId' = [callReqId EXCEPT ![c] = request_id + 1]
            /\ callPc' = [callPc EXCEPT ![c] = "read"]
            /\ UNCHANGED callResult
       ELSE /\ Return(c, "error", -1)
            /\ UNCHANGED <<lockHeld, toWorker, callReqId, sent>>
    /\ UNCHANGED <<mcp_client, fromWorker, workerAlive, nStops, lastStop>>

\* A lock timeout that has already taken a request id.
AcquireTimeoutConsumesId(c) ==
    /\ RpcOnly
    /\ callPc[c] = "acquire"
    /\ lockHeld
    /\ Return(c, "busy", -1)
    /\ request_id' = request_id + 1
    /\ UNCHANGED <<mcp_client, lockHeld, toWorker, fromWorker, callReqId,
                   sent, workerAlive, nStops, lastStop>>

\* call_tool, lines 59-61: the lock was not obtained within 15 s.
AcquireTimeout(c) ==
    /\ RpcOnly
    /\ callPc[c] = "acquire"
    /\ lockHeld
    /\ Return(c, "busy", -1)
    /\ UNCHANGED <<mcp_client, request_id, lockHeld, toWorker, fromWorker, callReqId,
                   sent, workerAlive, nStops, lastStop>>

\* call_tool, lines 76 and 81-94: the next line of the worker's stdout is
\* taken as the response to this request, whatever id it carries.
ReadResponse(c) ==
    /\ RpcOnly
    /\ callPc[c] = "read"
    /\ fromWorker # <<>>
    /\ fromWorker' = Tail(fromWorker)
    /\ Return(c, IF Head(fromWorker).has_result THEN "result" ELSE "unexpected",
              Head(fromWorker).id)
    /\ lockHeld' = FALSE
    /\ UNCHANGED <<mcp_client, request_id, toWorker, callReqId, sent, workerAlive,
                   nStops, lastStop>>

\* A response timeout that returns with the lock still held.
ReadTimeoutKeepsLock(c) ==
    /\ RpcOnly
    /\ callPc[c] = "read"
    /\ fromWorker = <<>>
    /\ workerAlive
    /\ Return(c, "timeout", -1)
    /\ UNCHANGED <<mcp_client, request_id, lockHeld, toWorker, fromWorker, callReqId,
                   sent, workerAlive, nStops, lastStop>>

\* call_tool, lines 77-79 and 92-94: no line arrived within 10 s.
ReadTimeout(c) ==
    /\ RpcOnly
    /\ callPc[c] = "read"
    /\ fromWorker = <<>>
    /\ workerAlive
    /\ Return(c, "timeout", -1)
    /\ lockHeld' = FALSE
    /\ UNCHANGED <<mcp_client, request_id, toWorker, fromWorker, callReqId,
                   sent, workerAlive, nStops, lastStop>>

\* The worker handles the oldest request and writes its response.
WorkerRespond(has_result) ==
    /\ RpcOnly
    /\ workerAlive
    /\ toWorker # <<>>
    /\ toWorker' = Tail(toWorker)
    /\ fromWorker' = Append(fromWorker,
                            [id |-> Head(toWorker).id, has_result |-> has_result])
    /\ UNCHANGED <<mcp_client, request_id, lockHeld, callPc, callReqId, callResult,
                   sent, workerAlive, nStops, lastStop>>

\* The worker process exits; what it has written stays readable.
WorkerExit ==
    /\ RpcOnly
    /\ workerAlive
    /\ workerAlive' = FALSE
    /\ UNCHANGED <<mcp_client, request_id, lockHeld, toWorker, fromWorker, callPc,
                   callReqId, callResult, sent, nStops, lastStop>>

\* start, lines 45-46 and _read_response: the worker's stdout is at end of
\* file, the empty line fails to decode and start raises to the handler.
StartReadEOF(c) ==
    /\ RpcOnly
    /\ callPc[c] = "init_read"
    /\ fromWorker = <<>>
    /\ ~workerAlive
    /\ Return(c, "error", -1)
    /\ UNCHANGED <<mcp_client, request_id, lockHeld, toWorker, fromWorker, callReqId,
                   sent, workerAlive, nStops, lastStop>>

\* call_tool, lines 76 and 92-94 and _read_response: end of file on the
\* worker's stdout, the decode error leaves call_tool through finally.
ReadEOF(c) ==
    /\ RpcOnly
    /\ callPc[c] = "read"
    /\ fromWorker = <<>>
    /\ ~workerAlive
    /\ Return(c, "error", -1)
    /\ lockHeld' = FALSE
    /\ UNCHANGED <<mcp_client, request_id, toWorker, fromWorker, callReqId,
                   sent, workerAlive, nStops, lastStop>>

\* stop, lines 117-122.  terminate() on a process that has exited raises
\* ProcessLookupError once the event loop has closed its transport.
stop(transportClosed) ==
    /\ RpcOnly
    /\ nStops < MaxRpcStops
    /\ nStops' = nStops + 1
    /\ lastStop' = [called |-> TRUE,
                    had_process |-> mcp_client = "spawned",
                    was_alive |-> workerAlive,
                    raised |-> mcp_client = "spawned" /\ ~workerAlive /\ transportClosed]
    /\ workerAlive' = FALSE
    /\ UNCHANGED <<mcp_client, request_id, lockHeld, toWorker, fromWorker, callPc,
                   callReqId, callResult, sent>>

\* The bot process and the worker its client started.  The worker is a
\* child of the bot (create_subprocess_exec, lines 26-32) in the bot's
\* process group; nothing signals it when the bot ends.
SessionInit ==
    /\ botRunning = TRUE
    /\ botEnd = "none"

\* The bot process ends: the calls in flight end with it.
BotEnds(how) ==
    /\ botRunning
    /\ botRunning' = FALSE
    /\ botEnd' = how
    /\ callPc' = [c \in Callers |->
                    IF callPc[c] \in {"idle", "done"} THEN callPc[c] ELSE "abandoned"]
    /\ UNCHANGED <<mcp_client, request_id, lockHeld, toWorker, fromWorker, callReqId,
                   callResult, sent, workerAlive, nStops, lastStop>>

\* cleanup_room: proc.terminate(), or proc.kill(), on the bot's handle.
BotTerminated == SessionOnly /\ BotEnds("terminated")

\* on_participant_left: the status updater is closed, the pipeline task is
\* cancelled and run_bot returns; MCPClient.stop is not called.
ParticipantLeft == SessionOnly /\ BotEnds("participant_left")

RpcNext ==
    \/ \E c \in Callers : GetClient(c)
    \/ \E c \in Callers, ok \in BOOLEAN : StartSpawn(c, ok)
    \/ \E c \in Callers : StartRead(c)
    \/ \E c \in Callers : Acquire(c)
    \/ \E c \in Callers : AcquireTimeout(c)
    \/ \E c \in Callers : ReadResponse(c)
    \/ \E c \in Callers : ReadTimeout(c)
    \/ \E ok \in BOOLEAN : WorkerRespond(ok)
    \/ WorkerExit
    \/ \E c \in Callers : StartReadEOF(c)
    \/ \E c \in Callers : ReadEOF(c)
    \/ \E closed \in BOOLEAN : stop(closed)

\* Tool calls made one after another: a handler starts only when every
\* earlier handler has returned.
NoCallInFlight == \A c \in Callers : callPc[c] \in {"idle", "done"}

RpcSeqNext ==
    \/ \E c \in Callers : NoCallInFlight /\ GetClient(c)
    \/ \E c \in Callers, ok \in BOOLEAN : StartSpawn(c, ok)
    \/ \E c \in Callers : StartRead(c)
    \/ \E c \in Callers : Acquire(c)
    \/ \E c \in Callers : ReadResponse(c)
    \/ \E c \in Callers : ReadTimeout(c)
    \/ \E ok \in BOOLEAN : WorkerRespond(ok)
    \/ WorkerExit
    \/ \E c \in Callers : StartReadEOF(c)
    \/ \E c \in Callers : ReadEOF(c)
    \/ \E closed \in BOOLEAN : stop(closed)

(***************************************************************************)
(* Claims about Part III                                                   *)
(***************************************************************************)

\* C6: every result call_tool returns for the request with id N comes from
\* the response that carries id N; a late response to a request that timed
\* out is never returned as the result of a later request.
ResultCarriesRequestId ==
    \A c \in Callers :
        callResult[c].kind = "result" => callResult[c].response_id = callReqId[c]

\* C14: at most one tool-call request is outstanding: no tools/call request
\* is written while an earlier call has written its request and has not yet
\* seen its response or its timeout.
ToolCallWritten ==
    /\ Len(sent') = Len(sent) + 1
    /\ sent'[Len(sent')].method = "tools/call"

OneRequestOutstanding ==
    [][ToolCallWritten => \A c \in Callers : callPc[c] # "read"]_vars

ConcurrentCallsContend ==
    \E c, d \in Callers : callPc[c] = "read" /\ callPc[d] = "acquire" /\ lockHeld

\* C15: a call whose lock acquisition times out returns the busy error and
\* writes no request, reads no response, takes no request id, leaves the
\* lock with its holder and leaves every other call where it was.
BusyTouchesNothing ==
    [][\A c \in Callers :
          (callResult[c].kind # "busy" /\ callResult'[c].kind = "busy")
          => /\ UNCHANGED <<toWorker, fromWorker, sent, request_id, lockHeld, callReqId>>
             /\ lockHeld
             /\ \A d \in Callers \ {c} :
                    callPc'[d] = callPc[d] /\ callResult'[d] = callResult[d]]_vars

BusyReturned ==
    \E c, d \in Callers : callResult[c].kind = "busy" /\ callPc[d] = "read"

\* C16: the lock is held exactly while a call is between acquiring it and
\* returning; after a response timeout, a result, an unexpected response or
\* a stream error the lock is free.
LockHeldOnlyDuringCall == lockHeld <=> \E c \in Callers : callPc[c] = "read"

LockFreeAfterTimeoutAndStreamError ==
    /\ ~lockHeld
    /\ \E c, d \in Callers :
          /\ callPc[c] = "done" /\ callResult[c].kind = "timeout"
          /\ callPc[d] = "done" /\ callResult[d].kind = "error" /\ callReqId[d] # -1

\* C17: no tool-call request is written to the worker while start is still
\* waiting for the response to its initialize request.
HandshakeBeforeToolCalls ==
    ~ /\ \E c \in Callers : callPc[c] = "init_read"
      /\ \E i \in DOMAIN sent : sent[i].method = "tools/call"

\* C18: start always completes: a start that waits for the initialize
\* response eventually stops waiting, by a response or by a startup timeout.
StartCompletes ==
    \A c \in Callers : (callPc[c] = "init_read") ~> (callPc[c] # "init_read")

\* C19: stop never raises: not the second time, and not when the worker has
\* already exited.
StopNeverRaises == lastStop.called => ~lastStop.raised

\* C20: the ids of the requests written by one client are strictly
\* increasing, the initialize request, answered calls and timed-out calls
\* included.
RequestIdsStrictlyIncreasing ==
    \A i, j \in DOMAIN sent : i < j => sent[i].id < sent[j].id

IdsIssuedAcrossTimeoutAndSuccess ==
    /\ Len(sent) >= 3
    /\ \E c, d \in Callers : callResult[c].kind = "timeout" /\ callResult[d].kind = "result"

\* C37: when the session is torn down, by cleanup_room terminating the bot
\* or by the bot shutting down when the participant has left, the worker
\* started by the bot's client is terminated too and the calls in flight are
\* abandoned: no worker runs once its bot has ended.
WorkerEndsWithSession ==
    [][(BotTerminated \/ ParticipantLeft)
          => /\ ~workerAlive'
             /\ \A c \in Callers : callPc'[c] \in {"idle", "done", "abandoned"}]_vars

(***************************************************************************)
(* Part IV.  cinema_bot.py (pipeline, VideoResponseProcessor) and          *)
(* cinema_script.py (tool handlers)                                        *)
(*                                                                         *)
(* The language model is the environment: after a user turn it emits text  *)
(* or calls one of the two tools.  What a tool call returns is an input.   *)
(***************************************************************************)

\* run_bot: the processors of conversation_pipeline, in order.
Pipeline == <<"transport.input", "rtvi", "stt", "context_aggregator.user", "llm",
              "transport.output", "context_aggregator.assistant">>

InPipeline(stage) == \E i \in DOMAIN Pipeline : Pipeline[i] = stage

\* What call_tool hands back to a handler.
ToolOutcomes == {"success", "error_status", "busy", "timeout", "raised"}

DialogueInit ==
    /\ turn = 0
    /\ nOutputs = 0
    /\ turnCalls = <<>>
    /\ context = <<>>
    /\ output = <<>>
    /\ status_updates = <<>>
    /\ playback_commands = 0
    /\ tool_results = <<>>
    /\ function_was_called = FALSE
    /\ pending_function_result = "none"

\* VideoResponseProcessor.process_frame on a downstream TextFrame: the frame
\* pushed on (if any), the corrections sent to the context, the new fields.
ProcessTextFrame(was_called, pending) ==
    IF pending = "with_response"
    THEN [pushed |-> <<"video_description">>, corrections |-> <<>>,
          function_was_called |-> FALSE, pending_function_result |-> "none"]
    ELSE IF ~was_called
    THEN [pushed |-> <<>>, corrections |-> <<"correction">>,
          function_was_called |-> was_called,
          pending_function_result |-> pending]
    ELSE [pushed |-> <<>>, corrections |-> <<>>,
          function_was_called |-> was_called,
          pending_function_result |-> pending]

ProcessText == ProcessTextFrame(function_was_called, pending_function_result)

\* process_frame on the n text frames of one streamed response, in order.
RECURSIVE ProcessTextFrames(_, _, _)
ProcessTextFrames(n, was_called, pending) ==
    IF n = 0
    THEN [pushed |-> <<>>, corrections |-> <<>>,
          function_was_called |-> was_called, pending_function_result |-> pending]
    ELSE LET first == ProcessTextFrame(was_called, pending)
             rest == ProcessTextFrames(n - 1, first.function_was_called,
                                       first.pending_function_result)
         IN [rest EXCEPT !.pushed = first.pushed \o @,
                         !.corrections = first.corrections \o @]

\* VideoResponseProcessor.process_frame on the frames of a function call:
\* both are passed on, and the fields record the call and its result.
ProcessFunctionCall(result) ==
    IF InPipeline("video_response_processor")
    THEN /\ function_was_called' = TRUE
         /\ pending_function_result' = result
    ELSE UNCHANGED <<function_was_called, pending_function_result>>

\* A frame pushed downstream of the language model reaches the processors
\* that follow it in the pipeline.
Forwarded(frames) ==
    /\ output' = IF InPipeline("transport.output") THEN output \o frames ELSE output
    /\ context' = IF InPipeline("context_aggregator.assistant")
                  THEN context \o [i \in DOMAIN frames |-> "assistant"]
                  ELSE context

\* The user speaks: the transcription is added to the context.
UserTurn ==
    /\ DialogueOnly
    /\ turn < MaxTurns
    /\ turn' = turn + 1
    /\ turnCalls' = <<>>
    /\ context' = Append(context, "user")
    /\ UNCHANGED <<nOutputs, output, status_updates, playback_commands, tool_results,
                   function_was_called, pending_function_result>>

\* The language model emits a text frame.
LLMText ==
    /\ DialogueOnly
    /\ turn > 0
    /\ nOutputs < MaxOutputs
    /\ nOutputs' = nOutputs + 1
    /\ IF InPipeline("video_response_processor")
       THEN /\ output' = output \o ProcessText.pushed
            /\ context' = (context \o ProcessText.corrections)
                              \o [i \in DOMAIN ProcessText.pushed |-> "assistant"]
            /\ function_was_called' = ProcessText.function_was_called
            /\ pending_function_result' = ProcessText.pending_function_result
       ELSE /\ Forwarded(<<"text">>)
            /\ UNCHANGED <<function_was_called, pending_function_result>>
    /\ UNCHANGED <<turn, turnCalls, status_updates, playback_commands, tool_results>>

\* The language model answers with text only, streamed as n text frames.
LLMTextResponse(n) ==
    /\ DialogueOnly
    /\ turn > 0
    /\ nOutputs < MaxOutputs
    /\ nOutputs' = nOutputs + 1
    /\ IF InPipeline("video_response_processor")
       THEN LET p == ProcessTextFrames(n, function_was_called, pending_function_result)
            IN /\ output' = output \o p.pushed
               /\ context' = (context \o p.corrections)
                                 \o [i \in DOMAIN p.pushed |-> "assistant"]
               /\ function_was_called' = p.function_was_called
               /\ pending_function_result' = p.pending_function_result
       ELSE /\ Forwarded([i \in 1 .. n |-> "text"])
            /\ UNCHANGED <<function_was_called, pending_function_result>>
    /\ UNCHANGED <<turn, turnCalls, status_updates, playback_commands, tool_results>>

\* A search handler that also adds the summary to the model's context.
SearchHandlerSummaryInContext(has_description, outcome) ==
    /\ DialogueOnly
    /\ turn > 0
    /\ nOutputs < MaxOutputs
    /\ nOutputs' = nOutputs + 1
    /\ turnCalls' = Append(turnCalls, "search")
    /\ tool_results' = Append(tool_results,
           [tool |-> "search",
            error |-> IF ~has_description THEN "no_description"
                      ELSE IF outcome = "success" THEN "none" ELSE outcome])
    /\ IF has_description /\ outcome = "success"
       THEN /\ status_updates' = status_updates \o <<"reasoning", "search_results">>
            /\ context' = context \o <<"search_results", "play_next">>
            /\ ProcessFunctionCall("with_response")
       ELSE /\ UNCHANGED <<status_updates, context>>
            /\ ProcessFunctionCall("without_response")
    /\ UNCHANGED <<turn, output, playback_commands>>

\* A search handler that reports the results whatever call_tool returned.
SearchHandlerIgnoresError(has_description, outcome) ==
    /\ DialogueOnly
    /\ turn > 0
    /\ nOutputs < MaxOutputs
    /\ nOutputs' = nOutputs + 1
    /\ turnCalls' = Append(turnCalls, "search")
    /\ tool_results' = Append(tool_results, [tool |-> "search", error |-> "none"])
    /\ status_updates' = status_updates \o <<"reasoning", "search_results">>
    /\ context' = Append(context, "play_next")
    /\ ProcessFunctionCall("with_response")
    /\ UNCHANGED <<turn, output, playback_commands>>

\* search_video_clips_handler
search_video_clips_handler(has_description, outcome) ==
    /\ DialogueOnly
    /\ turn > 0
    /\ nOutputs < MaxOutputs
    /\ nOutputs' = nOutputs + 1
    /\ turnCalls' = Append(turnCalls, "search")
    /\ tool_results' = Append(tool_results,
           [tool |-> "search",
            error |-> IF ~has_description THEN "no_description"
                      ELSE IF outcome = "success" THEN "none" ELSE outcome])
    /\ IF has_description /\ outcome = "success"
       THEN /\ status_updates' = status_updates \o <<"reasoning", "search_results">>
            /\ context' = Append(context, "play_next")
            /\ ProcessFunctionCall("with_response")
       ELSE /\ UNCHANGED <<status_updates, context>>
            /\ ProcessFunctionCall("without_response")
    /\ UNCHANGED <<turn, output, playback_commands>>

\* A play handler that pushes the playback command before it looks at the
\* status of the result.
PlayHandlerCommandBeforeCheck(has_params, has_reasoning, outcome) ==
    /\ DialogueOnly
    /\ turn > 0
    /\ nOutputs < MaxOutputs
    /\ nOutputs' = nOutputs + 1
    /\ turnCalls' = Append(turnCalls, "play")
    /\ tool_results' = Append(tool_results,
           [tool |-> "play",
            error |-> IF ~has_params THEN "missing_params"
                      ELSE IF outcome = "success" THEN "none" ELSE outcome])
    /\ playback_commands' = playback_commands + 1
    /\ IF has_params /\ outcome = "success"
       THEN /\ status_updates' = status_updates
                   \o (IF has_reasoning THEN <<"reasoning">> ELSE <<>>) \o <<"video">>
            /\ context' = Append(context, "stop_and_wait")
       ELSE UNCHANGED <<status_updates, context>>
    /\ ProcessFunctionCall("without_response")
    /\ UNCHANGED <<turn, output>>

\* play_video_by_params_handler
play_video_by_params_handler(has_params, has_reasoning, outcome) ==
    /\ DialogueOnly
    /\ turn > 0
    /\ nOutputs < MaxOutputs
    /\ nOutputs' = nOutputs + 1
    /\ turnCalls' = Append(turnCalls, "play")
    /\ tool_results' = Append(tool_results,
           [tool |-> "play",
            error |-> IF ~has_params THEN "missing_params"
                      ELSE IF outcome = "success" THEN "none" ELSE outcome])
    /\ IF has_params /\ outcome = "success"
       THEN /\ status_updates' = status_updates
                   \o (IF has_reasoning THEN <<"reasoning">> ELSE <<>>) \o <<"video">>
            /\ playback_commands' = playback_commands + 1
            /\ context' = Append(context, "stop_and_wait")
       ELSE UNCHANGED <<status_updates, playback_commands, context>>
    /\ ProcessFunctionCall("without_response")
    /\ UNCHANGED <<turn, output>>

DialogueNext ==
    \/ UserTurn
    \/ LLMText
    \/ \E d \in BOOLEAN, o \in ToolOutcomes : search_video_clips_handler(d, o)
    \/ \E a \in BOOLEAN, r \in BOOLEAN, o \in ToolOutcomes :
           play_video_by_params_handler(a, r, o)

(***************************************************************************)
(* Claims about Part IV                                                    *)
(***************************************************************************)
Count(seq, x) == Cardinality({i \in DOMAIN seq : seq[i] = x})

\* C10: when the model emits plain text in a turn in which no search call
\* has been made, the text does not reach the user-visible channel, no clip
\* entry is appended to the status log, no clip is played, and a corrective
\* instruction is added to the model's context.
TextBeforeSearchSuppressedAndCorrected ==
    [][(LLMText /\ Count(turnCalls, "search") = 0)
          => /\ output' = output
             /\ status_updates' = status_updates
             /\ playback_commands' = playback_commands
             /\ Count(context', "correction") = Count(context, "correction") + 1]_vars

\* C11: a user turn resets the dialogue to WAITING_FOR_USER: also in a turn
\* that follows a turn in which a search or a play call succeeded, plain
\* text emitted before any search call of the turn adds a corrective
\* instruction to the model's context.
EarlierCallSucceeded == Count(context, "play_next") + Count(context, "stop_and_wait") > 0

TextInLaterTurnCorrected ==
    [][(LLMText /\ turnCalls = <<>> /\ EarlierCallSucceeded)
          => Count(context', "correction") = Count(context, "correction") + 1]_vars

\* C24: a play call appends a clip entry to the status log, pushes a play
\* command and adds exactly one stop-and-wait instruction to the context if
\* and only if it succeeded; a play call that returns an error does none.
PlayEffectsIffSuccess ==
    [][\A a \in BOOLEAN, r \in BOOLEAN, o \in ToolOutcomes :
          play_video_by_params_handler(a, r, o)
          => LET clip == Count(status_updates', "video") - Count(status_updates, "video")
                 cmd == playback_commands' - playback_commands
                 wait == Count(context', "stop_and_wait") - Count(context, "stop_and_wait")
                 ok == tool_results'[Len(tool_results')].error = "none"
             IN IF ok
                THEN clip = 1 /\ cmd = 1 /\ wait = 1
                ELSE /\ clip = 0 /\ cmd = 0 /\ wait = 0
                     /\ UNCHANGED <<status_updates, context>>]_vars

PlayFailedAndPlaySucceeded ==
    /\ playback_commands = 1
    /\ \E i, j \in DOMAIN tool_results :
          /\ tool_results[i] = [tool |-> "play", error |-> "error_status"]
          /\ tool_results[j] = [tool |-> "play", error |-> "none"]

NoModelTextReachesOutput == output = <<>>

\* C27: a search or play call that call_tool answers with the busy or the
\* timeout error returns a failed result to the model, appends nothing to
\* the status log and pushes no play command.
BusyAndTimeoutSurfaced ==
    [][\A x \in BOOLEAN, r \in BOOLEAN, o \in {"busy", "timeout"} :
          (search_video_clips_handler(x, o) \/ play_video_by_params_handler(x, r, o))
          => /\ tool_results'[Len(tool_results')].error # "none"
             /\ UNCHANGED <<status_updates, playback_commands>>]_vars

CallSucceedsAfterBusyOrTimeout ==
    \E i, j \in DOMAIN tool_results :
        /\ i < j
        /\ tool_results[i].error \in {"busy", "timeout"}
        /\ tool_results[j].error = "none"

\* C33: a play call made when no search call has been made in the current
\* user turn is still executed (the tool is called and the play command is
\* pushed when it succeeds) and is flagged as a deviation from the
\* search-then-play protocol.
PlayWithoutSearchFlagged ==
    [][\A r \in BOOLEAN :
          (play_video_by_params_handler(TRUE, r, "success")
              /\ Count(turnCalls, "search") = 0)
          => /\ playback_commands' = playback_commands + 1
             /\ \/ Count(context', "protocol_deviation")
                      > Count(context, "protocol_deviation")
                \/ Count(status_updates', "protocol_deviation")
                      > Count(status_updates, "protocol_deviation")
                \/ tool_results'[Len(tool_results')].error = "protocol_deviation"]_vars

\* A play call has succeeded in the current user turn: its stop-and-wait
\* instruction is in the context after the last user message.
Played ==
    \E i \in DOMAIN context :
        /\ context[i] = "stop_and_wait"
        /\ \A j \in DOMAIN context : j > i => context[j] # "user"

\* C34: after a play call has succeeded in a user turn, a further search or
\* play call made before the next user turn is detected as a protocol
\* violation: it is answered by a corrective instruction and is not handled
\* as a normal call (no status log entry, no play command).
CallAfterPlayDetected ==
    [][\A x \in BOOLEAN, r \in BOOLEAN, o \in ToolOutcomes :
          (Played /\ (search_video_clips_handler(x, o)
                         \/ play_video_by_params_handler(x, r, o)))
          => /\ Count(context', "correction") = Count(context, "correction") + 1
             /\ UNCHANGED <<status_updates, playback_commands>>]_vars

\* C39: for one response of the model that is plain text, made in a turn
\* with no search call, exactly one corrective instruction is added to the
\* model's context, in however many text frames the response arrives.
OneCorrectionPerResponse ==
    [][\A n \in 1 .. MaxFrames :
          (LLMTextResponse(n) /\ Count(turnCalls, "search") = 0)
          => Count(context', "correction") = Count(context, "correction") + 1]_vars

(***************************************************************************)
(* Specifications                                                          *)
(***************************************************************************)
Init ==
    ServerInit /\ TeardownInit /\ PlaybackInit /\ MpvInit /\ RpcInit /\ SessionInit /\ DialogueInit

SpecRegistry == Init /\ [][RegistryNext]_vars

SpecStatus == Init /\ [][StatusNext]_vars

\* The session registry with the status log written, swept by /rooms.
SweepNext ==
    \/ RtviConnect
    \/ BotExits
    \/ UpdateStatus
    \/ ListRooms
    \/ RegisterPi
    \/ RegisterVideo

SpecSweep == Init /\ [][SweepNext]_vars

SpecTeardown == Init /\ [][TeardownNext]_vars

\* The server's thread keeps running a call that has started.
SpecTeardownLive == SpecTeardown /\ WF_vars(CleanupStep)

SpecPoll == Init /\ [][PollNext]_vars

SpecPlayback == Init /\ [][PlaybackNext]_vars

SpecPlaybackSeq == Init /\ [][PlaybackSeqNext]_vars

\* The service's threads are scheduled whenever they can run, the service
\* starts, and a clip ends when its run time is over; no request is forced.
PlaybackThreadStep ==
    \/ \E ok \in BOOLEAN : MainStart(ok)
    \/ \E t \in Plays : PlayClear(t)
    \/ \E t \in Plays, ok \in BOOLEAN : PlayLaunch(t, ok)
    \/ \E t \in Plays : PlayStartMonitor(t)
    \/ \E t \in Plays : MonitorReadProcess(t)
    \/ \E t \in Plays : MonitorReadStatic(t)
    \/ \E t \in Plays : MonitorWake(t)
    \/ \E t \in Plays, ok \in BOOLEAN : StaticThread(t, ok)
    \/ \E s \in Stops, ok \in BOOLEAN : StopStatic(s, ok)
    \/ \E p \in VlcPids : ContentExit(p)

SpecPlaybackSeqLive == SpecPlaybackSeq /\ WF_vars(PlaybackThreadStep)

SpecMpv == Init /\ [][MpvNext]_vars

SpecRpc == Init /\ [][RpcNext]_vars

SpecRpcSeq == Init /\ [][RpcSeqNext]_vars

\* The client's coroutines are scheduled by the event loop whenever they can
\* run; nothing makes the worker answer or exit, and nothing forces a stop.
ClientStep ==
    \/ \E c \in Callers : NoCallInFlight /\ GetClient(c)
    \/ \E c \in Callers, ok \in BOOLEAN : StartSpawn(c, ok)
    \/ \E c \in Callers : StartRead(c)
    \/ \E c \in Callers : StartReadEOF(c)
    \/ \E c \in Callers : Acquire(c)
    \/ \E c \in Callers : ReadResponse(c)
    \/ \E c \in Callers : ReadTimeout(c)
    \/ \E c \in Callers : ReadEOF(c)

SpecRpcSeqLive == SpecRpcSeq /\ WF_vars(ClientStep)

\* One session: the bot's tool calls, its worker, and the end of the bot.
SessionNext ==
    \/ botRunning /\ ClientStep
    \/ \E ok \in BOOLEAN : WorkerRespond(ok)
    \/ WorkerExit
    \/ BotTerminated
    \/ ParticipantLeft

SpecSession == Init /\ [][SessionNext]_vars

\* The dialogue with the model's text arriving as streamed responses.
DialogueFramesNext ==
    \/ UserTurn
    \/ \E n \in 1 .. MaxFrames : LLMTextResponse(n)
    \/ \E d \in BOOLEAN, o \in ToolOutcomes : search_video_clips_handler(d, o)
    \/ \E a \in BOOLEAN, r \in BOOLEAN, o \in ToolOutcomes :
           play_video_by_params_handler(a, r, o)

SpecDialogueFrames == Init /\ [][DialogueFramesNext]_vars

SpecDialogue == Init /\ [][DialogueNext]_vars

====
